---- MODULE Spec2Model ----
(***************************************************************************)
(* A model of the sosistab session layer of geph4                          *)
(* (src/lib/sosistab/src/session.rs): the replay filter, the run decoder,  *)
(* the batching send loop and the receive loop of a Session.               *)
(*                                                                         *)
(* Specifications:                                                         *)
(*   Spec      send_bytes -> send loop -> lossless in-order wire ->        *)
(*             receive loop -> recv_bytes                                  *)
(*   SpecSend  send_bytes, the send loop and a backhaul taking the frames  *)
(*   SpecBatch the send loop on two bursts of 16 payloads                  *)
(*   SpecQueue send_bytes against a slow send loop (queue overflow)        *)
(*   SpecRecv  the receive loop behind a lossy, reordering network         *)
(*   SpecRD    one RunDecoder driven by input calls                        *)
(*   SpecRF    one ReplayFilter driven by add calls                        *)
(*   SpecLoss  one LossCalculator, a clock and update_params calls         *)
(*   SpecMedian one LossCalculator admitting a sample at every call        *)
(*   SpecU8    calls of loss_to_u8                                         *)
(*   SpecHandshake  connect_custom and init_session                        *)
(*   SpecBackhaul   the backhaul tasks of a session                        *)
(*   SpecDrop       on_drop and the drop of a Session                      *)
(*   SpecMux        the Multiplex facade and its actor                     *)
(*   SpecKeepalive  the keepalive supervisor and its body                   *)
(*   SpecExit       the keepalive body over every exit list                 *)
(*   SpecConnect    the connection attempt of a keepalive body: direct,     *)
(*                  bridges, deadline                                       *)
(*   SpecMain       authentication and the main loop of a keepalive body    *)
(*   SpecDispatch   SpecMain with a fair dispatcher                         *)
(*   SpecRebind     the upstream side of the backhaul tasks, binds failing  *)
(*   SpecStats      the receive loop and the stats loop of a session        *)
(*   SpecKaStats    a keepalive body serving the calls of get_stats         *)
(***************************************************************************)
EXTENDS Integers, Sequences, FiniteSets, TLC

VARIABLES
    rp_filter,          \* the ReplayFilter: [top_seqno, bottom_seqno, seen_seqno]
    rf_log,             \* history of add calls: sequence of [seqno, ret]
    \* ---- Session channels and atomics
    send_tosend,        \* out-bound payload channel, bounded(500)
    recv_input,         \* in-bound payload channel, bounded(500)
    send_frame,         \* cfg.send_frame: DataFrames leaving the session, bounded(1000)
    measured_loss,      \* AtomicU8
    high_recv_frame_no, \* AtomicU64
    total_recv_frames,  \* AtomicU64
    \* ---- session_send_loop locals and position
    sl_pc,              \* "first" (line 143), "gather" (145-157), "send" (162-197)
    to_send,            \* the batch being gathered
    encoded,            \* the encoder's output for the batch
    sl_idx,             \* index of the next shard of encoded to enqueue
    frame_no,
    run_no,
    \* ---- history of the send side
    n_submitted,        \* number of send_bytes calls so far
    n_dropped,          \* number of send_bytes calls whose payload was dropped
    n_batched,          \* number of payloads in the runs completed so far
    timer_fired,        \* whether a latency timer has ever ended a batch
    last_frame,         \* the DataFrame enqueued last (NoFrame before the first)
    \* ---- session_recv_loop locals and position
    decoder,            \* the RunDecoder behind the RwLock
    seqnos,             \* the recent-seqnos deque of <<Instant, frame_no>>
    loss_calc,          \* the LossCalculator
    rl_pc,              \* "recv" (line 217), "deliver" (243-245, decoder lock held)
    rl_output,          \* decoded payloads not yet sent to send_input
    now,                \* the clock (Instant::now()), in ms since the session started
    delivered,          \* history: the payloads returned by recv_bytes, in order
    \* ---- the network in front of the receive loop (SpecRecv)
    net_next,           \* index in WireFrames of the next frame the network handles
    net_held,           \* indices of the frames the network is holding back
    net_late,           \* indices of the frames it held back and delivered later
    net_lost,           \* indices in WireFrames of the frames the network lost
    \* ---- history of the calls of RunDecoder::input (SpecRD)
    rd_fed,             \* the shards fed so far, as <<run_no, run_idx>>
    rd_out,             \* per run_no, the concatenation of what input returned
    rd_maxfed,          \* the highest run_no fed so far (-1: none)
    rd_late,            \* the run_nos a shard of which was fed more than 10 runs late
    \* ---- history of the calls of LossCalculator::update_params (SpecLoss)
    lc_call,            \* the last call: [dtop, dtotal, dt] relative to the last admitted sample
    lc_admitted,        \* the samples admitted so far, in order
    \* ---- a call of loss_to_u8 (SpecU8)
    lu_loss,            \* the argument, a fraction <<numerator, denominator>>
    lu_byte,            \* the u8 returned
    \* ---- connect_custom (client.rs:24-103) and init_session (108-141)
    hs_pc,              \* "send" (line 44), "wait" (47-56), "done" (returned)
    hs_attempt,         \* x of (0u32..): the number of the iteration of the for loop
    hs_timer,           \* seconds of the Timer of the current wait (0: none set yet)
    hs_result,          \* what connect_custom returned: [ok, kind, msg] ("none" before)
    hs_tasks,           \* number of backhaul tasks spawned by init_session
    hs_session,         \* whether Session::new was called by init_session
    hs_log,             \* history: the ClientHellos sent and what ended each wait
    \* ---- client_backhaul_once (client.rs:144-265), one task per shard_id
    bh_pc,              \* per shard: "race" (192), "deliver" (194), "rebind" (230-238), "retry" (235),
                        \* "send" (245-260), "exited"
    bh_deaf,            \* per shard: the down future is pending for good (line 182)
    bh_updated,         \* per shard: updated
    bh_last_resume,     \* per shard: last_resume, in ms
    bh_socket,          \* per shard: the socket in use (a number per socket bound)
    bh_old,             \* the cleanup tasks alive: [shard, sock, since]
    bh_next_sock,       \* the number of the next socket bound
    bh_frame_in,        \* number of frames queued in send_frame_in (bounded(1000))
    bh_up,              \* history, per shard: the last upstream send
    bh_oldgaps,         \* history: ms after the rebind at which old sockets delivered
    bh_nup,             \* history: number of upstream frames enqueued
    bh_ndown,           \* history: number of datagrams received
    \* ---- the drop hooks of a Session (session.rs:36, 58-60; client.rs:137-139)
    dh_dropper,         \* _dropper: the closures pushed by on_drop, in order
    dh_tasks,           \* whether the backhaul tasks held by init_session's closure run
    dh_torn,            \* whether the Session has been dropped
    dh_ran,             \* history: the closures called, in order
    dh_destroyed,       \* history: the closures destroyed, in order
    \* ---- Multiplex (mux.rs:13-87) and the channels to its actor
    mx_closed,          \* whether the actor has ended and dropped its channel ends
    mx_urel_send,       \* number of messages in urel_send, bounded(10)
    mx_urel_recv,       \* number of messages in urel_recv, bounded(10)
    mx_conn_accept,     \* number of streams in conn_accept, bounded(100)
    mx_opens,           \* the open_conn calls under way: "queued", "replied", "dropped"
    mx_last,            \* history: the call that returned last, [op, res]
    mx_nopens,          \* history: number of open_conn calls
    mx_nconns,          \* history: number of streams the actor offered
    \* ---- the keepalive actor (kalive.rs:58-251)
    ka_exit_host,       \* the exit_host the actor was started with
    ka_use_bridges,     \* the use_bridges the actor was started with
    ka_pc,              \* "unstarted", "body_start", "connecting", "authenticating",
                        \* "main_loop", "sleeping", "returned"
    ka_fetched,         \* history: the exits as get_exits returned them to this body
    ka_exits,           \* exits, sorted, of this body
    ka_descriptor,      \* the exit descriptor of the stats collector
    ka_targets,         \* history: the handshakes this body started
    ka_elapsed,         \* milliseconds since this body started to connect
    ka_err,             \* the error of the last body that ended
    ka_slept,           \* milliseconds the supervisor has slept
    \* ---- the connection attempt of a keepalive body (kalive.rs:104-171)
    cn_stage,           \* "idle", "racing", "done"
    cn_direct,          \* the direct attempt: "unused", "resolving", "handshaking",
                        \* "failed", "ok", "cancelled"
    cn_bridge,          \* bridge_sess_async: "none", "fetching", "selecting", "dropped"
    cn_bridge_at,       \* history: ka_elapsed when bridge_sess_async started, -1 before
    cn_hs,              \* the handshake task of each bridge: "running", "ok", "failed",
                        \* "cancelled"
    cn_chan,            \* the results the tasks have sent: sequence of [bridge, ok]
    cn_via,             \* history: -1, 0 for a direct session, b for one through bridge b
    \* ---- authentication and the main loop of a keepalive body (kalive.rs:172-250)
    \* and the callers of Keepalive::connect (kalive.rs:42-48)
    ml_stage,           \* "idle", "token", "auth", "main", "done"
    ml_timer,           \* milliseconds since authenticate_session was called
    ml_authed,          \* history: authenticate_session returned Ok in this body
    ml_mux,             \* the actor of the Multiplex of this body: "alive", "dead"
    ml_duties,          \* history: watchdog, dispatcher and stats responder have started
    ml_wd,              \* the watchdog: [pc: "off", "timer", "probe", "returned", elapsed]
    ml_stop,            \* the messages in the send_stop channel
    ml_queue,           \* the requests in the open_socks5_conn channel
    ml_reqs,            \* the connect calls: [st, elapsed, reply], reply the stream
                        \* received, 0 while waiting, -1 once the reply channel is closed
    ml_here,            \* history: the requests dispatched by this body
    \* ---- what the shards send (client.rs:230-260)
    bw_frame,           \* per shard: the upstream frame in hand (bts), 0 for none
    bw_sent,            \* history, per shard: the datagrams sent, [sock, shard, kind, frame]
    bw_retry,           \* per shard: the time the Timer of line 235 fires, -1 for none
    bw_fails,           \* history: number of failed binds
    \* ---- the locks of session_recv_loop and its stats loop (session.rs:211-269)
    st_rl,              \* the receive loop: "recv" (217), "seqnos" (226), "decoder" (236),
                        \* "deliver" (243-245, the guard of decoder.write() alive)
    st_out,             \* number of decoded payloads not yet sent to send_input
    st_input,           \* number of payloads in the in-bound channel
    st_dec,             \* the RwLock of the decoder: [writer, readers]
    st_seq,             \* the RwLock of seqnos: [writer, readers]
    st_sl,              \* the stats loop: "recv" (253), "decoder" (254), "seqnos" (265),
                        \* "reply" (267), "pending" (infal after a failed send)
    st_statreq,         \* the requests in the channel of get_stats, by number
    st_calls,           \* the get_stats calls: "none", "waiting", "answered", "dropped"
    st_frames,          \* history: number of frames the receive loop has taken
    \* ---- Keepalive::get_stats and the stats responder of a body (kalive.rs:51-55, 242-248)
    ks_calls,           \* the get_stats calls: "none", "waiting", "answered", "dropped"
                        \* (the caller gave up), "error" (the reply channel was closed)
    ks_queue,           \* the requests in the get_stats channel, by number
    ks_pc,              \* the stats responder: "recv" (244), "session" (245), "reply" (246)
    ks_req              \* the request the stats responder has in hand, 0 for none

rfVars == <<rp_filter, rf_log>>
chanVars == <<send_tosend, recv_input, send_frame>>
atomVars == <<measured_loss, high_recv_frame_no, total_recv_frames>>
slVars == <<sl_pc, to_send, encoded, sl_idx, frame_no, run_no>>
sendHist == <<n_submitted, n_dropped, n_batched, timer_fired, last_frame>>
rlVars == <<decoder, seqnos, loss_calc, rl_pc, rl_output>>
netVars == <<net_next, net_held, net_late, net_lost>>
rdHist == <<rd_fed, rd_out, rd_maxfed, rd_late>>
lossHist == <<lc_call, lc_admitted>>
u8Vars == <<lu_loss, lu_byte>>
hsVars == <<hs_pc, hs_attempt, hs_timer, hs_result, hs_tasks, hs_session, hs_log>>
bhVars == <<bh_pc, bh_deaf, bh_updated, bh_last_resume, bh_socket, bh_old,
           bh_next_sock, bh_frame_in, bh_up, bh_oldgaps, bh_nup, bh_ndown>>
dhVars == <<dh_dropper, dh_tasks, dh_torn, dh_ran, dh_destroyed>>
mxVars == <<mx_closed, mx_urel_send, mx_urel_recv, mx_conn_accept, mx_opens, mx_last,
           mx_nopens, mx_nconns>>
kaVars == <<ka_exit_host, ka_use_bridges, ka_pc, ka_fetched, ka_exits, ka_descriptor,
           ka_targets, ka_elapsed, ka_err, ka_slept>>
cnVars == <<cn_stage, cn_direct, cn_bridge, cn_bridge_at, cn_hs, cn_chan, cn_via>>
mlVars == <<ml_stage, ml_timer, ml_authed, ml_mux, ml_duties, ml_wd, ml_stop, ml_queue, ml_reqs, ml_here>>
bwVars == <<bw_frame, bw_sent, bw_retry, bw_fails>>
stVars == <<st_rl, st_out, st_input, st_dec, st_seq, st_sl, st_statreq, st_calls, st_frames>>
ksVars == <<ks_calls, ks_queue, ks_pc, ks_req>>
extVars == <<lossHist, u8Vars, hsVars, bhVars, dhVars, mxVars, kaVars, cnVars, mlVars, bwVars, stVars, ksVars>>
sessVars == <<rfVars, chanVars, atomVars, slVars, sendHist, rlVars, now, delivered,
             netVars, rdHist>>
exceptLoss == <<u8Vars, hsVars, bhVars, dhVars, mxVars, kaVars, cnVars, mlVars, bwVars, stVars, ksVars>>
exceptU8 == <<lossHist, hsVars, bhVars, dhVars, mxVars, kaVars, cnVars, mlVars, bwVars, stVars, ksVars>>
exceptHs == <<lossHist, u8Vars, bhVars, dhVars, mxVars, kaVars, cnVars, mlVars, bwVars, stVars, ksVars>>
exceptBh == <<lossHist, u8Vars, hsVars, dhVars, mxVars, kaVars, cnVars, mlVars, bwVars, stVars, ksVars>>
exceptBhBw == <<lossHist, u8Vars, hsVars, dhVars, mxVars, kaVars, cnVars, mlVars, stVars, ksVars>>
exceptDh == <<lossHist, u8Vars, hsVars, bhVars, mxVars, kaVars, cnVars, mlVars, bwVars, stVars, ksVars>>
exceptMx == <<lossHist, u8Vars, hsVars, bhVars, dhVars, kaVars, cnVars, mlVars, bwVars, stVars, ksVars>>
exceptKa == <<lossHist, u8Vars, hsVars, bhVars, dhVars, mxVars, cnVars, mlVars, bwVars, stVars, ksVars>>
exceptCn == <<lossHist, u8Vars, hsVars, bhVars, dhVars, mxVars, kaVars, mlVars, bwVars, stVars, ksVars>>
exceptKaCn == <<lossHist, u8Vars, hsVars, bhVars, dhVars, mxVars, mlVars, bwVars, stVars, ksVars>>
exceptMl == <<lossHist, u8Vars, hsVars, bhVars, dhVars, mxVars, kaVars, cnVars, bwVars, stVars, ksVars>>
exceptKaMl == <<lossHist, u8Vars, hsVars, bhVars, dhVars, mxVars, cnVars, bwVars, stVars, ksVars>>
exceptKaMlKs == <<lossHist, u8Vars, hsVars, bhVars, dhVars, mxVars, cnVars, bwVars, stVars>>
exceptSt == <<lossHist, u8Vars, hsVars, bhVars, dhVars, mxVars, kaVars, cnVars, mlVars, bwVars, ksVars>>
exceptKs == <<lossHist, u8Vars, hsVars, bhVars, dhVars, mxVars, kaVars, cnVars, mlVars, bwVars, stVars>>
\* the session variables that the backhaul shards leave alone
sessNotBh == <<rfVars, send_tosend, recv_input, atomVars, slVars, sendHist, rlVars,
              delivered, netVars, rdHist>>
vars == <<rfVars, chanVars, atomVars, slVars, sendHist, rlVars, now, delivered,
          netVars, rdHist, extVars>>

(***************************************************************************)
(* Bounds of the model                                                     *)
(***************************************************************************)
MaxSeq == 2         \* sequence numbers offered: 0..MaxSeq and a second band one window higher
MaxAdds == 4        \* length of a sequence of ReplayFilter::add calls
MaxParity == 1      \* parity shards the encoder adds to a run: 0..MaxParity
MaxSubmit == 3      \* send_bytes calls in Spec and SpecSend
BatchParity == 0    \* repair shards per run in SpecBatch: 0..BatchParity
MaxTaken == 2       \* payloads the send loop takes in SpecQueue
MaxRun == 1         \* SpecRD feeds the runs 0..MaxRun and RDWindow+1..RDWindow+1+MaxRun
MaxHeld == 1        \* frames the network of SpecRecv holds back and delivers late
MaxOverflow == 2    \* send_bytes calls beyond what the queue and the loop absorb in SpecQueue
MaxAdmitted == 3    \* samples the LossCalculator admits in SpecLoss
MaxSamples == 66    \* calls of update_params in SpecMedian
LossGrid == 512     \* SpecU8 offers the losses 0/LossGrid .. LossGrid/LossGrid
MaxAttempts == 4    \* iterations of the handshake loop after the first in SpecHandshake
MaxClock == 7500    \* SpecBackhaul: the clock stops at MaxClock ms or just after
MaxUp == 2          \* SpecBackhaul: upstream frames enqueued
MaxDown == 1        \* SpecBackhaul: datagrams received
MaxHooks == 6       \* SpecDrop: closures registered with on_drop
MaxOpens == 2       \* SpecMux: open_conn calls
MaxConns == 2       \* SpecMux: streams the actor offers to accept_conn
MaxExits == 2       \* SpecExit: exits get_exits returns
MaxBridges == 2     \* SpecConnect: bridges get_bridges returns
MaxBindFails == 1   \* SpecRebind: binds that fail
MaxStatCalls == 2   \* SpecStats: calls of Session::get_stats
MaxStatFrames == 3  \* SpecStats: frames the receive loop takes
MaxOut == 2         \* SpecStats: payloads one call of RunDecoder::input returns
InputCap == 2       \* SpecStats: payloads the in-bound channel holds (500 at session.rs:45)
MaxReqs == 2        \* SpecMain: calls of Keepalive::connect

(***************************************************************************)
(* Program constants                                                       *)
(***************************************************************************)
RFWindow == 10000   \* session.rs:352
SendQueueCap == 500 \* session.rs:44
RecvQueueCap == 500 \* session.rs:45
FrameChanCap == 1000 \* client.rs:115
BatchMax == 16      \* session.rs:154
RDWindow == 10      \* session.rs:297
SeqnosCap == 100000 \* session.rs:228
LossSamplesCap == 64 \* session.rs:405
Shards == 2         \* client.rs:105 (SHARDS)
ResetMillis == 5000 \* client.rs:106 (RESET_MILLIS)
CleanupSecs == 5    \* client.rs:225
UrelCap == 10       \* mux.rs:28
AcceptCap == 100    \* mux.rs:31
RetryMillis == 1000 \* client.rs:235
RestartMillis == 1000   \* kalive.rs:78
FallbackMillis == 5000  \* kalive.rs:158
ConnectMillis == 10000  \* kalive.rs:167
AuthMillis == 5000      \* kalive.rs:178
WatchdogMillis == 200000    \* kalive.rs:191
OpenMillis == 15000     \* kalive.rs:194, 220

\* seqno, frame_no and run_no are u64 in the source; every value of the model
\* stays far below 2^64, so their arithmetic is plain integer arithmetic.

Max(S) == CHOOSE x \in S : \A y \in S : y <= x

(***************************************************************************)
(* ReplayFilter (session.rs:327-358)                                       *)
(***************************************************************************)
ReplayFilterNew(start) ==
    [top_seqno |-> start, bottom_seqno |-> start, seen_seqno |-> {}]

\* while self.top_seqno - self.bottom_seqno > 10000 { remove(bottom); bottom += 1 }
RECURSIVE AdvanceBottom(_)
AdvanceBottom(f) ==
    IF f.top_seqno - f.bottom_seqno > RFWindow
    THEN AdvanceBottom([f EXCEPT !.seen_seqno = @ \ {f.bottom_seqno},
                                 !.bottom_seqno = @ + 1])
    ELSE f

\* add without the out-of-range early return (a plausible slip)
ReplayFilterAdd_NoRangeCheck(f, seqno) ==
    IF seqno \in f.seen_seqno
    THEN [filter |-> f, ret |-> FALSE]
    ELSE [filter |-> AdvanceBottom([f EXCEPT !.top_seqno = seqno]), ret |-> TRUE]

\* fn add(&mut self, seqno) -> bool: the filter afterwards and the value returned.
\* The only writes to the filter are top_seqno and, inside the loop,
\* seen_seqno.remove and bottom_seqno; nothing is ever inserted into seen_seqno.
ReplayFilterAdd(f, seqno) ==
    IF seqno < f.bottom_seqno
    THEN [filter |-> f, ret |-> FALSE]
    ELSE IF seqno \in f.seen_seqno
    THEN [filter |-> f, ret |-> FALSE]
    ELSE [filter |-> AdvanceBottom([f EXCEPT !.top_seqno = seqno]), ret |-> TRUE]

(***************************************************************************)
(* SpecRF: a ReplayFilter::new(0) and any sequence of add calls            *)
(***************************************************************************)
SeqNos == (0 .. MaxSeq) \cup (RFWindow + 1 .. RFWindow + 1 + MaxSeq)

InitRF ==
    /\ rp_filter = ReplayFilterNew(0)
    /\ rf_log = <<>>

RFAdd(seqno) ==
    /\ Len(rf_log) < MaxAdds
    /\ LET r == ReplayFilterAdd(rp_filter, seqno) IN
        /\ rp_filter' = r.filter
        /\ rf_log' = Append(rf_log, [seqno |-> seqno, ret |-> r.ret])
    /\ UNCHANGED <<extVars, chanVars, atomVars, slVars, sendHist,
                   rlVars, now, delivered, netVars, rdHist>>

(***************************************************************************)
(* FEC codec (crate::fec, not part of the sources at hand): modelled from  *)
(* its contract.  A run of n payloads is encoded into n systematic shards  *)
(* (shard i carries payload i) followed by parity shards; any n distinct   *)
(* shards of the run determine the payload list.  A parity shard is        *)
(* represented by the list it was computed from.                           *)
(***************************************************************************)
DataShard(payload) == [parity |-> FALSE, data |-> <<payload>>]
ParityShard(payloads) == [parity |-> TRUE, data |-> payloads]

\* FrameEncoder::new(target).encode(measured_loss, &to_send) with `parity`
\* repair shards; the number of repair shards is the encoder's choice.
FECEncode(payloads, parity) ==
    [i \in 1 .. Len(payloads) + parity |->
        IF i <= Len(payloads) THEN DataShard(payloads[i]) ELSE ParityShard(payloads)]

\* the repair-shard counts the encoder may pick for a run of n payloads
\* (total shards <= 255)
FECParityChoices(loss, n) == {p \in 0 .. MaxParity : n + p <= 255}

(***************************************************************************)
(* Session::send_bytes (session.rs:63-68)                                  *)
(***************************************************************************)
\* try_send that appends even when the channel is full (a plausible slip)
TrySend_Unbounded(chan, item, cap) == Append(chan, item)

\* Sender::try_send on a bounded channel: the channel afterwards
TrySend(chan, item, cap) ==
    IF Len(chan) < cap THEN Append(chan, item) ELSE chan

SendBytes(payload) ==
    /\ send_tosend' = TrySend(send_tosend, payload, SendQueueCap)
    /\ n_dropped' = n_dropped + 1 - (Len(send_tosend') - Len(send_tosend))
    /\ n_submitted' = n_submitted + 1
    /\ UNCHANGED <<extVars, rfVars, recv_input, send_frame, atomVars, slVars,
                   n_batched, timer_fired, last_frame,
                   rlVars, now, delivered, netVars, rdHist>>

\* k send_bytes calls in a row by one task (send_bytes has no suspension
\* point), with payloads n_submitted+1 .. n_submitted+k
RECURSIVE TrySendSeq(_, _, _)
TrySendSeq(chan, items, cap) ==
    IF items = <<>> THEN chan
    ELSE TrySendSeq(TrySend(chan, Head(items), cap), Tail(items), cap)

SendBurst(k) ==
    /\ send_tosend' = TrySendSeq(send_tosend, [i \in 1 .. k |-> n_submitted + i],
                                 SendQueueCap)
    /\ n_dropped' = n_dropped + k - (Len(send_tosend') - Len(send_tosend))
    /\ n_submitted' = n_submitted + k
    /\ UNCHANGED <<extVars, rfVars, recv_input, send_frame, atomVars, slVars,
                   n_batched, timer_fired, last_frame,
                   rlVars, now, delivered, netVars, rdHist>>

(***************************************************************************)
(* session_send_loop (session.rs:122-200)                                  *)
(***************************************************************************)
NoFrame == [frame_no |-> -1, run_no |-> -1, run_idx |-> 0, data_shards |-> 0,
            parity_shards |-> 0, high_recv_frame_no |-> 0, total_recv_frames |-> 0,
            body |-> DataShard(0)]

\* the DataFrame of shard idx carrying the body of the first shard (an index slip)
MakeFrame_FirstShard(idx) ==
    [frame_no |-> frame_no,
     run_no |-> run_no,
     run_idx |-> idx % 256,
     data_shards |-> Len(to_send) % 256,
     parity_shards |-> (Len(encoded) - Len(to_send)) % 256,
     high_recv_frame_no |-> high_recv_frame_no,
     total_recv_frames |-> total_recv_frames,
     body |-> encoded[1]]

\* lines 172-181: the DataFrame built for shard idx (0-based) of the run
MakeFrame(idx) ==
    [frame_no |-> frame_no,
     run_no |-> run_no,
     run_idx |-> idx % 256,
     data_shards |-> Len(to_send) % 256,
     parity_shards |-> (Len(encoded) - Len(to_send)) % 256,
     high_recv_frame_no |-> high_recv_frame_no,
     total_recv_frames |-> total_recv_frames,
     body |-> encoded[idx + 1]]

\* the batch is closed once it holds more than 16 payloads (off by one)
BatchFull_OffByOne(batch) == Len(batch) > BatchMax

\* line 154: to_send.len() >= 16
BatchFull(batch) == Len(batch) >= BatchMax

\* lines 140-144: clear the batch, block for the first payload, start the timer
SL_RecvFirst ==
    /\ sl_pc = "first"
    /\ send_tosend # <<>>
    /\ to_send' = <<Head(send_tosend)>>
    /\ send_tosend' = Tail(send_tosend)
    /\ sl_pc' = "gather"
    /\ UNCHANGED <<extVars, rfVars, recv_input, send_frame, atomVars, encoded, sl_idx,
                   frame_no, run_no, sendHist,
                   rlVars, now, delivered, netVars, rdHist>>

\* lines 150-156 and 160-161: one more payload arrives before the timer; with
\* 16 payloads gathered the batch is closed and encoded
SL_Gather ==
    /\ sl_pc = "gather"
    /\ send_tosend # <<>>
    /\ LET batch == Append(to_send, Head(send_tosend)) IN
        /\ to_send' = batch
        /\ send_tosend' = Tail(send_tosend)
        /\ IF BatchFull(batch)
           THEN /\ sl_pc' = "send"
                /\ \E p \in FECParityChoices(measured_loss, Len(batch)) :
                      encoded' = FECEncode(batch, p)
           ELSE /\ sl_pc' = "gather"
                /\ encoded' = encoded
    /\ UNCHANGED <<extVars, rfVars, recv_input, send_frame, atomVars, sl_idx,
                   frame_no, run_no, sendHist,
                   rlVars, now, delivered, netVars, rdHist>>

\* lines 146-149, 154 and 160-161: the latency timer fires first; the batch is
\* closed with what has been gathered and encoded
SL_Timeout ==
    /\ sl_pc = "gather"
    /\ sl_pc' = "send"
    /\ \E p \in FECParityChoices(measured_loss, Len(to_send)) :
          encoded' = FECEncode(to_send, p)
    /\ timer_fired' = TRUE
    /\ UNCHANGED <<extVars, rfVars, chanVars, atomVars, to_send, sl_idx, frame_no, run_no,
                   n_submitted, n_dropped, n_batched, last_frame,
                   rlVars, now, delivered, netVars, rdHist>>

\* frame_no after one frame was enqueued, were the counter not advanced
NextFrameNo_Stuck(fno) == fno

\* line 196
NextFrameNo(fno) == fno + 1

\* run_no after a run, were the counter not advanced
NextRunNo_Stuck(rno) == rno

\* line 198
NextRunNo(rno) == rno + 1

\* lines 162-198: one iteration of the for loop: enqueue the DataFrame of the
\* next shard (blocking while cfg.send_frame is full); after the last shard of
\* the run, run_no advances and the loop starts over
SL_SendFrame ==
    /\ sl_pc = "send"
    /\ Len(send_frame) < FrameChanCap
    /\ LET frame == MakeFrame(sl_idx) IN
        /\ send_frame' = Append(send_frame, frame)
        /\ last_frame' = frame
    /\ frame_no' = NextFrameNo(frame_no)
    /\ IF sl_idx + 1 = Len(encoded)
       THEN /\ run_no' = NextRunNo(run_no)
            /\ n_batched' = n_batched + Len(to_send)
            /\ sl_pc' = "first"
            /\ sl_idx' = 0
            /\ to_send' = <<>>
            /\ encoded' = <<>>
       ELSE /\ sl_idx' = sl_idx + 1
            /\ UNCHANGED <<run_no, n_batched, sl_pc, to_send, encoded>>
    /\ UNCHANGED <<extVars, rfVars, send_tosend, recv_input, atomVars,
                   n_submitted, n_dropped, timer_fired,
                   rlVars, now, delivered, netVars, rdHist>>

\* a backhaul shard takes the next DataFrame off the channel to put it on the
\* wire (client.rs:196-199)
ShardTake ==
    /\ send_frame # <<>>
    /\ send_frame' = Tail(send_frame)
    /\ UNCHANGED <<extVars, rfVars, send_tosend, recv_input, atomVars, slVars, sendHist,
                   rlVars, now, delivered, netVars, rdHist>>

InitSend ==
    /\ send_tosend = <<>>
    /\ recv_input = <<>>
    /\ send_frame = <<>>
    /\ measured_loss = 0
    /\ high_recv_frame_no = 0
    /\ total_recv_frames = 0
    /\ sl_pc = "first"
    /\ to_send = <<>>
    /\ encoded = <<>>
    /\ sl_idx = 0
    /\ frame_no = 0
    /\ run_no = 0
    /\ n_submitted = 0
    /\ n_dropped = 0
    /\ n_batched = 0
    /\ timer_fired = FALSE
    /\ last_frame = NoFrame

SendLoop == SL_RecvFirst \/ SL_Gather \/ SL_Timeout \/ SL_SendFrame

(***************************************************************************)
(* FEC sub-decoder (crate::fec, not part of the sources at hand), from its *)
(* contract: FrameDecoder::new(data, parity).decode(body, idx) returns the *)
(* payload list of the run, in index order, when the run is completed,     *)
(* that is with the data_shards-th distinct shard, and None otherwise.     *)
(***************************************************************************)
FrameDecoderNew(data_shards, parity_shards) ==
    [data_shards |-> data_shards, parity_shards |-> parity_shards,
     shards |-> <<>>,       \* idx -> body of the shards received
     done |-> FALSE, good_pkts |-> 0, lost_pkts |-> 0]

\* the payload list determined by data_shards distinct shards
FECReconstruct(shards, data_shards) ==
    IF \E i \in DOMAIN shards : shards[i].parity
    THEN shards[CHOOSE i \in DOMAIN shards : shards[i].parity].data
    ELSE [i \in 1 .. data_shards |-> shards[i - 1].data[1]]

\* decode(bts, idx): the sub-decoder afterwards and the Option returned
FrameDecode(dec, bts, idx) ==
    IF dec.done \/ idx \in DOMAIN dec.shards
       \/ idx >= dec.data_shards + dec.parity_shards
    THEN [dec |-> dec, some |-> FALSE, out |-> <<>>]
    ELSE LET shards == [i \in DOMAIN dec.shards \cup {idx} |->
                            IF i = idx THEN bts ELSE dec.shards[i]]
         IN  IF Cardinality(DOMAIN shards) >= dec.data_shards
             THEN LET good == Cardinality({i \in DOMAIN shards : i < dec.data_shards})
                  IN  [dec |-> [dec EXCEPT !.shards = shards, !.done = TRUE,
                                           !.good_pkts = good,
                                           !.lost_pkts = dec.data_shards - good],
                       some |-> TRUE,
                       out |-> FECReconstruct(shards, dec.data_shards)]
             ELSE [dec |-> [dec EXCEPT !.shards = shards],
                   some |-> FALSE, out |-> <<>>]

(***************************************************************************)
(* RunDecoder (session.rs:271-323)                                         *)
(***************************************************************************)
RunDecoderDefault ==
    [top_run |-> 0, bottom_run |-> 0,
     decoders |-> <<>>,     \* run_no -> FrameDecoder
     total_count |-> 0, correct_count |-> 0,
     total_data_shards |-> 0, total_parity_shards |-> 0]

MapRemove(m, k) == [x \in DOMAIN m \ {k} |-> m[x]]
MapPut(m, k, v) == [x \in DOMAIN m \cup {k} |-> IF x = k THEN v ELSE m[x]]

\* the loop of lines 297-303 without the removal of the retired sub-decoder
RECURSIVE AdvanceBottomRun_NoRemove(_)
AdvanceBottomRun_NoRemove(rd) ==
    IF rd.top_run - rd.bottom_run > RDWindow
    THEN AdvanceBottomRun_NoRemove([rd EXCEPT !.bottom_run = @ + 1])
    ELSE rd

\* lines 297-303: while top_run - bottom_run > 10, retire the run at bottom_run
RECURSIVE AdvanceBottomRun(_)
AdvanceBottomRun(rd) ==
    IF rd.top_run - rd.bottom_run > RDWindow
    THEN LET dec == rd.decoders[rd.bottom_run]
             retired ==
                 IF rd.bottom_run \in DOMAIN rd.decoders
                 THEN [rd EXCEPT !.decoders = MapRemove(@, rd.bottom_run),
                                 !.total_count = @ + dec.good_pkts + dec.lost_pkts,
                                 !.correct_count = @ + dec.good_pkts]
                 ELSE rd
         IN  AdvanceBottomRun([retired EXCEPT !.bottom_run = @ + 1])
    ELSE rd

\* input with a new sub-decoder made for every shard (entry().or_insert_with
\* replaced by insert)
RunDecoderInput_FreshDecoder(rd, rno, run_idx, data_shards, parity_shards, bts) ==
    IF rno >= rd.bottom_run
    THEN LET adv == IF rno > rd.top_run
                    THEN AdvanceBottomRun([rd EXCEPT !.top_run = rno])
                    ELSE rd
             res == FrameDecode(FrameDecoderNew(data_shards, parity_shards), bts, run_idx)
         IN  [rd |-> [adv EXCEPT !.decoders = MapPut(@, rno, res.dec)],
              some |-> res.some, out |-> res.out]
    ELSE [rd |-> rd, some |-> FALSE, out |-> <<>>]

\* input that also drops the shards of the run at bottom_run (> for >=)
RunDecoderInput_StrictBottom(rd, rno, run_idx, data_shards, parity_shards, bts) ==
    IF rno > rd.bottom_run
    THEN LET adv == IF rno > rd.top_run
                    THEN AdvanceBottomRun([rd EXCEPT !.top_run = rno])
                    ELSE rd
             dec == IF rno \in DOMAIN adv.decoders
                    THEN adv.decoders[rno]
                    ELSE FrameDecoderNew(data_shards, parity_shards)
             res == FrameDecode(dec, bts, run_idx)
         IN  [rd |-> [adv EXCEPT !.decoders = MapPut(@, rno, res.dec)],
              some |-> res.some, out |-> res.out]
    ELSE [rd |-> rd, some |-> FALSE, out |-> <<>>]

\* fn input(&mut self, run_no, run_idx, data_shards, parity_shards, bts)
\* -> Option<Vec<Bytes>>: the RunDecoder afterwards and the Option returned
RunDecoderInput(rd, rno, run_idx, data_shards, parity_shards, bts) ==
    IF rno >= rd.bottom_run
    THEN LET adv == IF rno > rd.top_run
                    THEN AdvanceBottomRun([rd EXCEPT !.top_run = rno])
                    ELSE rd
             dec == IF rno \in DOMAIN adv.decoders
                    THEN adv.decoders[rno]
                    ELSE FrameDecoderNew(data_shards, parity_shards)
             counted ==
                 IF run_idx < data_shards
                 THEN [adv EXCEPT !.total_data_shards = @ + 1]
                 ELSE [adv EXCEPT !.total_parity_shards = @ + 1]
             res == FrameDecode(dec, bts, run_idx)
         IN  [rd |-> [counted EXCEPT !.decoders = MapPut(@, rno, res.dec)],
              some |-> res.some, out |-> res.out]
    ELSE [rd |-> rd, some |-> FALSE, out |-> <<>>]

(***************************************************************************)
(* loss_to_u8 and LossCalculator (session.rs:360-418).  A loss (f64) is    *)
(* the fraction <<numerator, denominator>>.                                *)
(***************************************************************************)
\* lines 360-366
LossToU8(loss) ==
    IF 256 * loss[1] > 254 * loss[2] THEN 255 ELSE (256 * loss[1]) \div loss[2]

FracLess(a, b) == a[1] * b[2] < b[1] * a[2]

\* lala.sort_unstable_by(partial_cmp): entry i goes behind the entries that
\* are less and the equal ones before it
SortFracs(q) ==
    LET rank(i) == Cardinality({j \in 1 .. Len(q) :
                       \/ FracLess(q[j], q[i])
                       \/ ~FracLess(q[i], q[j]) /\ j < i})
    IN  [k \in 1 .. Len(q) |-> q[CHOOSE i \in 1 .. Len(q) : rank(i) = k - 1]]

LossCalculatorNew(t) ==
    [last_top_seqno |-> 0, last_total_seqno |-> 0, last_time |-> t,
     loss_samples |-> <<>>, median |-> <<0, 1>>]

\* lines 394-402: the sample 1.0 - delta_total / delta_top.max(delta_total)
LossSample(lc, top_seqno, total_seqno) ==
    LET delta_top == top_seqno - lc.last_top_seqno
        delta_total == total_seqno - lc.last_total_seqno
        m == IF delta_top >= delta_total THEN delta_top ELSE delta_total
    IN  <<m - delta_total, m>>

\* update_params with the sample set never trimmed (no pop_front)
LossUpdateParams_NoEvict(lc, top_seqno, total_seqno, t) ==
    IF /\ total_seqno > lc.last_total_seqno + 100
       /\ top_seqno > lc.last_top_seqno + 100
       /\ t - lc.last_time > 2000
    THEN LET samples == Append(lc.loss_samples, LossSample(lc, top_seqno, total_seqno))
         IN  [last_top_seqno |-> top_seqno, last_total_seqno |-> total_seqno,
              last_time |-> t, loss_samples |-> samples,
              median |-> SortFracs(samples)[Len(samples) \div 4 + 1]]
    ELSE lc

\* update_params without the condition on the time elapsed
LossUpdateParams_NoTimeGate(lc, top_seqno, total_seqno, t) ==
    IF /\ total_seqno > lc.last_total_seqno + 100
       /\ top_seqno > lc.last_top_seqno + 100
    THEN LET pushed == Append(lc.loss_samples, LossSample(lc, top_seqno, total_seqno))
             samples == IF Len(pushed) > LossSamplesCap THEN Tail(pushed) ELSE pushed
         IN  [last_top_seqno |-> top_seqno, last_total_seqno |-> total_seqno,
              last_time |-> t, loss_samples |-> samples,
              median |-> SortFracs(samples)[Len(samples) \div 4 + 1]]
    ELSE lc

\* lines 388-417
LossUpdateParams(lc, top_seqno, total_seqno, t) ==
    IF /\ total_seqno > lc.last_total_seqno + 100
       /\ top_seqno > lc.last_top_seqno + 100
       /\ t - lc.last_time > 2000
    THEN LET pushed == Append(lc.loss_samples, LossSample(lc, top_seqno, total_seqno))
             samples == IF Len(pushed) > LossSamplesCap THEN Tail(pushed) ELSE pushed
         IN  [last_top_seqno |-> top_seqno, last_total_seqno |-> total_seqno,
              last_time |-> t, loss_samples |-> samples,
              median |-> SortFracs(samples)[Len(samples) \div 4 + 1]]
    ELSE lc

(***************************************************************************)
(* session_recv_loop (session.rs:202-248), Session::recv_bytes (71-73)     *)
(***************************************************************************)
\* the atomic is overwritten with the frame number: a mutation of FetchMax
FetchMax_Store(cur, v) == v

\* line 234: AtomicU64::fetch_max
FetchMax(cur, v) == IF v > cur THEN v ELSE cur

\* lines 227-230
PushSeqno(q, e) ==
    LET pushed == Append(q, e) IN
    IF Len(pushed) > SeqnosCap THEN Tail(pushed) ELSE pushed

\* lines 217-242: one DataFrame taken from cfg.recv_frame goes through the
\* replay filter, the accounting and the run decoder; what the decoder returns
\* is then sent to send_input item by item (DeliverItem)
RecvFrame(new_frame) ==
    /\ rl_pc = "recv"
    /\ LET added == ReplayFilterAdd(rp_filter, new_frame.frame_no) IN
        /\ rp_filter' = added.filter
        /\ IF ~added.ret
           THEN UNCHANGED <<seqnos, loss_calc, atomVars, decoder, rl_pc, rl_output>>
           ELSE LET lc == LossUpdateParams(loss_calc, new_frame.high_recv_frame_no,
                                           new_frame.total_recv_frames, now)
                    res == RunDecoderInput(decoder, new_frame.run_no, new_frame.run_idx,
                                           new_frame.data_shards, new_frame.parity_shards,
                                           new_frame.body)
                IN  /\ seqnos' = PushSeqno(seqnos, <<now, new_frame.frame_no>>)
                    /\ loss_calc' = lc
                    /\ measured_loss' = LossToU8(lc.median)
                    /\ high_recv_frame_no' = FetchMax(high_recv_frame_no, new_frame.frame_no)
                    /\ total_recv_frames' = total_recv_frames + 1
                    /\ decoder' = res.rd
                    /\ IF res.some /\ res.out # <<>>
                       THEN rl_pc' = "deliver" /\ rl_output' = res.out
                       ELSE rl_pc' = "recv" /\ rl_output' = <<>>
    /\ UNCHANGED <<extVars, rf_log, send_tosend, recv_input, slVars, sendHist, now, delivered,
                   rdHist>>

\* lines 243-245: send_input.send(item).await, blocking while the in-bound
\* channel is full
DeliverItem ==
    /\ rl_pc = "deliver"
    /\ Len(recv_input) < RecvQueueCap
    /\ recv_input' = Append(recv_input, Head(rl_output))
    /\ rl_output' = Tail(rl_output)
    /\ rl_pc' = IF Tail(rl_output) = <<>> THEN "recv" ELSE "deliver"
    /\ UNCHANGED <<extVars, rfVars, send_tosend, send_frame, atomVars, slVars, sendHist,
                   decoder, seqnos, loss_calc, now, delivered, netVars, rdHist>>

\* Session::recv_bytes
RecvBytes ==
    /\ recv_input # <<>>
    /\ delivered' = Append(delivered, Head(recv_input))
    /\ recv_input' = Tail(recv_input)
    /\ UNCHANGED <<extVars, rfVars, send_tosend, send_frame, atomVars, slVars, sendHist,
                   rlVars, now, netVars, rdHist>>

\* the receive loop takes the next frame of a lossless in-order wire: the
\* channel the peer's send loop enqueues to
RecvFromWire ==
    /\ send_frame # <<>>
    /\ RecvFrame(Head(send_frame))
    /\ send_frame' = Tail(send_frame)
    /\ UNCHANGED netVars

InitRecv ==
    /\ decoder = RunDecoderDefault
    /\ seqnos = <<>>
    /\ loss_calc = LossCalculatorNew(0)
    /\ rl_pc = "recv"
    /\ rl_output = <<>>
    /\ now = 0
    /\ delivered = <<>>
    /\ net_next = 1
    /\ net_held = {}
    /\ net_late = {}
    /\ net_lost = {}
    /\ rd_fed = {}
    /\ rd_out = <<>>
    /\ rd_maxfed = -1
    /\ rd_late = {}

(***************************************************************************)
(* SpecLoss: one LossCalculator, a clock, and calls of update_params.  A   *)
(* call passes counters that lie dtop and dtotal above those of the last   *)
(* admitted sample.  The clock stops at 2000 ms and at 2001 ms after the   *)
(* last admitted sample.                                                   *)
(***************************************************************************)
LossDeltas == {100, 101, 202} \X {100, 101}

InitLoss ==
    /\ lc_call = [dtop |-> 0, dtotal |-> 0, dt |-> 0]
    /\ lc_admitted = <<>>

\* Instant::now() moves on
LossTick ==
    /\ now - loss_calc.last_time <= 2000
    /\ now' = IF now - loss_calc.last_time < 2000 THEN now + 2000 ELSE now + 1
    /\ UNCHANGED <<rfVars, chanVars, atomVars, slVars, sendHist, rlVars, delivered,
                   netVars, rdHist, extVars>>

\* update_params(top_seqno, total_seqno)
LossUpdate(dtop, dtotal) ==
    LET top_seqno == loss_calc.last_top_seqno + dtop
        total_seqno == loss_calc.last_total_seqno + dtotal
        lc == LossUpdateParams(loss_calc, top_seqno, total_seqno, now)
        sample == LossSample(loss_calc, top_seqno, total_seqno)
    IN  /\ lc # loss_calc => Len(lc_admitted) < MaxAdmitted
        /\ loss_calc' = lc
        /\ lc_call' = [dtop |-> dtop, dtotal |-> dtotal, dt |-> now - loss_calc.last_time]
        /\ lc_admitted' = IF lc # loss_calc THEN Append(lc_admitted, sample)
                          ELSE lc_admitted
        /\ UNCHANGED <<rfVars, chanVars, atomVars, slVars, sendHist, decoder, seqnos,
                       rl_pc, rl_output, now, delivered, netVars, rdHist, exceptLoss>>

(***************************************************************************)
(* SpecMedian: one LossCalculator and calls of update_params that are 2001 *)
(* ms apart and pass counters 101 or 202 above those of the call before,   *)
(* so that every call admits a sample.  The samples change value at most   *)
(* once.                                                                   *)
(***************************************************************************)
OneChange(hist, sample) ==
    IF hist = <<>> THEN TRUE
    ELSE IF sample = hist[Len(hist)] THEN TRUE
    ELSE \A i \in 1 .. Len(hist) : hist[i] = hist[1]

\* update_params(top_seqno, total_seqno), 2001 ms after the call before
LossUpdateLater(dtop, dtotal) ==
    LET top_seqno == loss_calc.last_top_seqno + dtop
        total_seqno == loss_calc.last_total_seqno + dtotal
        t == now + 2001
        sample == LossSample(loss_calc, top_seqno, total_seqno)
    IN  /\ Len(lc_admitted) < MaxSamples
        /\ OneChange(lc_admitted, sample)
        /\ now' = t
        /\ loss_calc' = LossUpdateParams(loss_calc, top_seqno, total_seqno, t)
        /\ lc_call' = [dtop |-> dtop, dtotal |-> dtotal, dt |-> t - loss_calc.last_time]
        /\ lc_admitted' = Append(lc_admitted, sample)
        /\ UNCHANGED <<rfVars, chanVars, atomVars, slVars, sendHist, decoder, seqnos,
                       rl_pc, rl_output, delivered, netVars, rdHist, exceptLoss>>

(***************************************************************************)
(* SpecU8: calls of loss_to_u8 with the losses n / LossGrid in [0, 1]      *)
(***************************************************************************)
InitU8 ==
    /\ lu_loss = <<0, 1>>
    /\ lu_byte = LossToU8(<<0, 1>>)

LossToU8Call(n) ==
    /\ lu_loss' = <<n, LossGrid>>
    /\ lu_byte' = LossToU8(<<n, LossGrid>>)
    /\ UNCHANGED <<sessVars, exceptU8>>

(***************************************************************************)
(* connect_custom (client.rs:24-103) and init_session (108-141).  The      *)
(* datagram received is what it decrypts to under the cookie's keys        *)
(* (crate::crypt, not part of the sources at hand): a ServerHello with its *)
(* long_pk, or nothing usable.  Public keys are small numbers.             *)
(***************************************************************************)
ExpectedPk == 1
PublicKeys == {ExpectedPk, ExpectedPk + 1}
HsDatagrams == {[hello |-> TRUE, long_pk |-> k] : k \in PublicKeys} \cup
               {[hello |-> FALSE, long_pk |-> 0]}
IoErrorKinds == {"TimedOut", "ConnectionRefused", "Other"}

RECURSIVE Pow2(_)
Pow2(x) == IF x = 0 THEN 1 ELSE 2 * Pow2(x - 1)

\* a timeout that grows by one second per attempt
TimeoutFactor_Linear(x) == x + 1

\* line 40: (0u32..).map(|x| 2u64.pow(x))
TimeoutFactor(x) == Pow2(x)

\* a check that accepts every long_pk
PubkeyMatches_Always(long_pk, pubkey) == TRUE

\* line 70: long_pk.as_bytes() != pubkey.as_bytes()
PubkeyMatches(long_pk, pubkey) == long_pk = pubkey

HsNoResult == [ok |-> FALSE, kind |-> "none", msg |-> ""]
HsErr(kind, msg) == [ok |-> FALSE, kind |-> kind, msg |-> msg]
HsOk == [ok |-> TRUE, kind |-> "Session", msg |-> ""]

InitHs ==
    /\ hs_pc = "send"
    /\ hs_attempt = 0
    /\ hs_timer = 0
    /\ hs_result = HsNoResult
    /\ hs_tasks = 0
    /\ hs_session = FALSE
    /\ hs_log = <<>>

\* lines 42-44: udp_socket.send_to(&init_hello, server_addr).await succeeds;
\* lines 47-56: the wait for a datagram starts with its Timer
HS_SendHello ==
    /\ hs_pc = "send"
    /\ hs_pc' = "wait"
    /\ hs_timer' = TimeoutFactor(hs_attempt)
    /\ hs_log' = Append(hs_log, [ev |-> "hello", timer |-> 0, kind |-> "", long_pk |-> 0])
    /\ UNCHANGED <<sessVars, exceptHs, hs_attempt, hs_result, hs_tasks, hs_session>>

\* line 44: send_to fails and ? returns the error
HS_SendFails(kind) ==
    /\ hs_pc = "send"
    /\ hs_pc' = "done"
    /\ hs_result' = HsErr(kind, "send_to")
    /\ hs_log' = Append(hs_log, [ev |-> "send_error", timer |-> 0, kind |-> kind, long_pk |-> 0])
    /\ UNCHANGED <<sessVars, exceptHs, hs_attempt, hs_timer, hs_tasks, hs_session>>

\* lines 49-55, 89-96: the Timer fires first; res is Err(TimedOut) and the
\* loop continues with the next timeout_factor
HS_Timeout ==
    /\ hs_pc = "wait"
    /\ hs_attempt < MaxAttempts
    /\ hs_pc' = "send"
    /\ hs_attempt' = hs_attempt + 1
    /\ hs_log' = Append(hs_log, [ev |-> "timeout", timer |-> hs_timer, kind |-> "", long_pk |-> 0])
    /\ UNCHANGED <<sessVars, exceptHs, hs_timer, hs_result, hs_tasks, hs_session>>

\* lines 89-99: recv_from fails; a TimedOut error continues, any other returns
HS_RecvFails(kind) ==
    /\ hs_pc = "wait"
    /\ IF kind = "TimedOut"
       THEN /\ hs_attempt < MaxAttempts
            /\ hs_pc' = "send"
            /\ hs_attempt' = hs_attempt + 1
            /\ hs_result' = hs_result
       ELSE /\ hs_pc' = "done"
            /\ hs_attempt' = hs_attempt
            /\ hs_result' = HsErr(kind, "recv_from")
    /\ hs_log' = Append(hs_log, [ev |-> "recv_error", timer |-> hs_timer, kind |-> kind,
                                 long_pk |-> 0])
    /\ UNCHANGED <<sessVars, exceptHs, hs_timer, hs_tasks, hs_session>>

\* lines 58-88: a datagram arrives before the Timer fires.  A ServerHello
\* with the expected long_pk leads to init_session (lines 115-140: SHARDS
\* backhaul tasks, Session::new, Ok(session)); one with another long_pk
\* returns ConnectionRefused; anything else falls through to the next
\* iteration of the for loop.
HS_Recv(d) ==
    /\ hs_pc = "wait"
    /\ IF d.hello
       THEN /\ hs_pc' = "done"
            /\ hs_attempt' = hs_attempt
            /\ IF PubkeyMatches(d.long_pk, ExpectedPk)
               THEN /\ hs_tasks' = Shards
                    /\ hs_session' = TRUE
                    /\ hs_result' = HsOk
               ELSE /\ hs_result' = HsErr("ConnectionRefused", "bad pubkey")
                    /\ UNCHANGED <<hs_tasks, hs_session>>
       ELSE /\ hs_attempt < MaxAttempts
            /\ hs_pc' = "send"
            /\ hs_attempt' = hs_attempt + 1
            /\ UNCHANGED <<hs_result, hs_tasks, hs_session>>
    /\ hs_log' = Append(hs_log, [ev |-> IF d.hello THEN "server_hello" ELSE "unusable",
                                 timer |-> hs_timer, kind |-> "", long_pk |-> d.long_pk])
    /\ UNCHANGED <<sessVars, exceptHs, hs_timer>>

(***************************************************************************)
(* client_backhaul_once (client.rs:144-265): the backhaul tasks of one     *)
(* session, one per shard_id.  They share the queue of upstream frames     *)
(* (recv_frame_out, the variable send_frame) and the channel of frames for *)
(* the session (send_frame_in).  A socket is the number it got when it was *)
(* bound; the clock is the variable now, in ms.                            *)
(***************************************************************************)
ShardIds == 0 .. Shards - 1
\* ms per step of the clock
TickMillis == ResetMillis \div 2
NoSend == [sock |-> -1, prev |-> -1, gap |-> 0, first |-> FALSE]

\* the test of line 198 without the first-time case
RebindDue_NoFirst(elapsed, updated) == elapsed > ResetMillis

\* line 198: as_millis() > RESET_MILLIS || !updated
RebindDue(elapsed, updated) == elapsed > ResetMillis \/ ~updated

\* line 225: Timer::after(Duration::from_secs(5)) ends the cleanup task
CleanupDeadline(since) == since + CleanupSecs * 1000

\* the frame goes out first and the ClientResume after it: a mutation of
\* RebindSends
RebindSends_FrameFirst(shard_id, sock, bts) ==
    <<[sock |-> sock, shard |-> shard_id, kind |-> "frame", frame |-> bts],
      [sock |-> sock, shard |-> shard_id, kind |-> "resume", frame |-> 0]>>

\* lines 245-260: after a rebind ClientResume {resume_token, shard_id} and
\* then bts are sent on the new socket
RebindSends(shard_id, sock, bts) ==
    <<[sock |-> sock, shard |-> shard_id, kind |-> "resume", frame |-> 0],
      [sock |-> sock, shard |-> shard_id, kind |-> "frame", frame |-> bts]>>

\* line 260: bts is sent on the socket in use
PlainSend(shard_id, sock, bts) ==
    <<[sock |-> sock, shard |-> shard_id, kind |-> "frame", frame |-> bts]>>

\* the times at which a Timer of a cleanup task or of a bind retry fires
BhTimers ==
    {CleanupDeadline(o.since) : o \in bh_old}
        \cup {bw_retry[s] : s \in {t \in ShardIds : bw_retry[t] # -1}}

InitBh ==
    /\ bh_pc = [s \in ShardIds |-> "race"]
    /\ bh_deaf = [s \in ShardIds |-> FALSE]
    /\ bh_updated = [s \in ShardIds |-> FALSE]
    /\ bh_last_resume = [s \in ShardIds |-> 0]
    /\ bh_socket = [s \in ShardIds |-> s]
    /\ bh_old = {}
    /\ bh_next_sock = Shards
    /\ bh_frame_in = 0
    /\ bh_up = [s \in ShardIds |-> NoSend]
    /\ bh_oldgaps = {}
    /\ bh_nup = 0
    /\ bh_ndown = 0

\* time passes, up to the next Timer of a cleanup task or of a bind retry
BH_Tick ==
    /\ now < MaxClock
    /\ \A t \in BhTimers : now < t
    /\ now' = IF \E t \in BhTimers : t < now + TickMillis
              THEN CHOOSE t \in BhTimers : \A u \in BhTimers : t <= u
              ELSE now + TickMillis
    /\ UNCHANGED <<sessNotBh, send_frame, exceptBh, bhVars>>

\* the session's send loop enqueues a frame to cfg.send_frame
BH_Enqueue ==
    /\ bh_nup < MaxUp
    /\ Len(send_frame) < FrameChanCap
    /\ send_frame' = Append(send_frame, bh_nup + 1)
    /\ bh_nup' = bh_nup + 1
    /\ UNCHANGED <<sessNotBh, now, exceptBh, bh_pc, bh_deaf, bh_updated, bh_last_resume,
                   bh_socket, bh_old, bh_next_sock, bh_frame_in, bh_up, bh_oldgaps,
                   bh_ndown>>

\* lines 176-179, 193: a datagram arrives on the socket and decrypts
BH_Incoming(s) ==
    /\ bh_pc[s] = "race" /\ ~bh_deaf[s]
    /\ bh_ndown < MaxDown
    /\ bh_ndown' = bh_ndown + 1
    /\ bh_pc' = [bh_pc EXCEPT ![s] = "deliver"]
    /\ UNCHANGED <<sessNotBh, send_frame, now, exceptBh, bh_deaf, bh_updated,
                   bh_last_resume, bh_socket, bh_old, bh_next_sock, bh_frame_in, bh_up,
                   bh_oldgaps, bh_nup>>

\* lines 180-183: a datagram that does not decrypt leaves the down future
\* pending until the next iteration of the loop
BH_Anomalous(s) ==
    /\ bh_pc[s] = "race" /\ ~bh_deaf[s]
    /\ bh_ndown < MaxDown
    /\ bh_ndown' = bh_ndown + 1
    /\ bh_deaf' = [bh_deaf EXCEPT ![s] = TRUE]
    /\ UNCHANGED <<sessNotBh, send_frame, now, exceptBh, bh_pc, bh_updated,
                   bh_last_resume, bh_socket, bh_old, bh_next_sock, bh_frame_in, bh_up,
                   bh_oldgaps, bh_nup>>

\* lines 176, 262: recv_from fails and the task returns None
BH_RecvFails(s) ==
    /\ bh_pc[s] = "race" /\ ~bh_deaf[s]
    /\ bh_pc' = [bh_pc EXCEPT ![s] = "exited"]
    /\ UNCHANGED <<sessNotBh, send_frame, now, exceptBh, bh_deaf, bh_updated,
                   bh_last_resume, bh_socket, bh_old, bh_next_sock, bh_frame_in, bh_up,
                   bh_oldgaps, bh_nup, bh_ndown>>

\* line 194: send_frame_in.send(df).await, blocking while the channel is full
BH_Deliver(s) ==
    /\ bh_pc[s] = "deliver"
    /\ bh_frame_in < FrameChanCap
    /\ bh_frame_in' = bh_frame_in + 1
    /\ bh_pc' = [bh_pc EXCEPT ![s] = "race"]
    /\ UNCHANGED <<sessNotBh, send_frame, now, exceptBh, bh_deaf, bh_updated,
                   bh_last_resume, bh_socket, bh_old, bh_next_sock, bh_up, bh_oldgaps,
                   bh_nup, bh_ndown>>

\* lines 188-190, 196-229: the shard takes an upstream frame; if a rebind is
\* due it notes the time, spawns the cleanup task of the socket in use and
\* goes on to bind a new one
BH_Take(s) ==
    /\ bh_pc[s] = "race"
    /\ send_frame # <<>>
    /\ send_frame' = Tail(send_frame)
    /\ bw_frame' = [bw_frame EXCEPT ![s] = Head(send_frame)]
    /\ bh_deaf' = [bh_deaf EXCEPT ![s] = FALSE]
    /\ bh_up' = [bh_up EXCEPT ![s] = [sock |-> -1, prev |-> bh_socket[s],
                                      gap |-> now - bh_last_resume[s],
                                      first |-> ~bh_updated[s]]]
    /\ IF RebindDue(now - bh_last_resume[s], bh_updated[s])
       THEN /\ bh_updated' = [bh_updated EXCEPT ![s] = TRUE]
            /\ bh_last_resume' = [bh_last_resume EXCEPT ![s] = now]
            /\ bh_old' = bh_old \cup {[shard |-> s, sock |-> bh_socket[s], since |-> now]}
            /\ bh_pc' = [bh_pc EXCEPT ![s] = "rebind"]
       ELSE /\ bh_pc' = [bh_pc EXCEPT ![s] = "send"]
            /\ UNCHANGED <<bh_updated, bh_last_resume, bh_old>>
    /\ UNCHANGED <<sessNotBh, now, exceptBhBw, bh_socket, bh_next_sock, bh_frame_in,
                   bh_oldgaps, bh_nup, bh_ndown, bw_sent, bw_retry, bw_fails>>

\* lines 230-238: new_udp_socket_bind(laddr_gen().ok()?) succeeds
BH_Bind(s) ==
    /\ bh_pc[s] = "rebind"
    /\ bh_socket' = [bh_socket EXCEPT ![s] = bh_next_sock]
    /\ bh_next_sock' = bh_next_sock + 1
    /\ bh_pc' = [bh_pc EXCEPT ![s] = "send"]
    /\ UNCHANGED <<sessNotBh, send_frame, now, exceptBh, bh_deaf, bh_updated,
                   bh_last_resume, bh_old, bh_frame_in, bh_up, bh_oldgaps, bh_nup,
                   bh_ndown>>

\* lines 231-236: new_udp_socket_bind fails; the error is logged and a Timer
\* of 1 s is awaited
BH_BindFails(s) ==
    /\ bh_pc[s] = "rebind"
    /\ bw_fails < MaxBindFails
    /\ bw_fails' = bw_fails + 1
    /\ bw_retry' = [bw_retry EXCEPT ![s] = now + RetryMillis]
    /\ bh_pc' = [bh_pc EXCEPT ![s] = "retry"]
    /\ UNCHANGED <<sessNotBh, send_frame, now, exceptBhBw, bh_deaf, bh_updated,
                   bh_last_resume, bh_socket, bh_old, bh_next_sock, bh_frame_in, bh_up,
                   bh_oldgaps, bh_nup, bh_ndown, bw_frame, bw_sent>>

\* lines 230, 235: the Timer has fired and the loop binds again
BH_Retry(s) ==
    /\ bh_pc[s] = "retry"
    /\ now >= bw_retry[s]
    /\ bw_retry' = [bw_retry EXCEPT ![s] = -1]
    /\ bh_pc' = [bh_pc EXCEPT ![s] = "rebind"]
    /\ UNCHANGED <<sessNotBh, send_frame, now, exceptBhBw, bh_deaf, bh_updated,
                   bh_last_resume, bh_socket, bh_old, bh_next_sock, bh_frame_in, bh_up,
                   bh_oldgaps, bh_nup, bh_ndown, bw_frame, bw_sent, bw_fails>>

\* line 231: laddr_gen() fails and ? ends the task
BH_LaddrFails(s) ==
    /\ bh_pc[s] = "rebind"
    /\ bh_pc' = [bh_pc EXCEPT ![s] = "exited"]
    /\ UNCHANGED <<sessNotBh, send_frame, now, exceptBh, bh_deaf, bh_updated,
                   bh_last_resume, bh_socket, bh_old, bh_next_sock, bh_frame_in, bh_up,
                   bh_oldgaps, bh_nup, bh_ndown>>

\* lines 245-260: ClientResume after a rebind, then the frame, on the socket
\* in use; send_to errors are dropped
BH_Send(s) ==
    /\ bh_pc[s] = "send"
    /\ bh_up' = [bh_up EXCEPT ![s].sock = bh_socket[s]]
    /\ bw_sent' = [bw_sent EXCEPT ![s] = @ \o
           (IF bh_socket[s] # bh_up[s].prev
            THEN RebindSends(s, bh_socket[s], bw_frame[s])
            ELSE PlainSend(s, bh_socket[s], bw_frame[s]))]
    /\ bw_frame' = [bw_frame EXCEPT ![s] = 0]
    /\ bh_pc' = [bh_pc EXCEPT ![s] = "race"]
    /\ UNCHANGED <<sessNotBh, send_frame, now, exceptBhBw, bh_deaf, bh_updated,
                   bh_last_resume, bh_socket, bh_old, bh_next_sock, bh_frame_in,
                   bh_oldgaps, bh_nup, bh_ndown, bw_retry, bw_fails>>

\* lines 210-222: a cleanup task receives a datagram on the old socket and
\* sends it to send_frame_in
BH_OldRecv(o) ==
    /\ o \in bh_old
    /\ bh_ndown < MaxDown
    /\ bh_frame_in < FrameChanCap
    /\ bh_ndown' = bh_ndown + 1
    /\ bh_frame_in' = bh_frame_in + 1
    /\ bh_oldgaps' = bh_oldgaps \cup {now - o.since}
    /\ UNCHANGED <<sessNotBh, send_frame, now, exceptBh, bh_pc, bh_deaf, bh_updated,
                   bh_last_resume, bh_socket, bh_old, bh_next_sock, bh_up, bh_nup>>

\* lines 224-227: the Timer of a cleanup task fires and the task ends
BH_CleanupEnds(o) ==
    /\ o \in bh_old
    /\ now >= CleanupDeadline(o.since)
    /\ bh_old' = bh_old \ {o}
    /\ UNCHANGED <<sessNotBh, send_frame, now, exceptBh, bh_pc, bh_deaf, bh_updated,
                   bh_last_resume, bh_socket, bh_next_sock, bh_frame_in, bh_up,
                   bh_oldgaps, bh_nup, bh_ndown>>

\* the session's receive loop takes a frame from recv_frame_in
BH_Drain ==
    /\ bh_frame_in > 0
    /\ bh_frame_in' = bh_frame_in - 1
    /\ UNCHANGED <<sessNotBh, send_frame, now, exceptBh, bh_pc, bh_deaf, bh_updated,
                   bh_last_resume, bh_socket, bh_old, bh_next_sock, bh_up, bh_oldgaps,
                   bh_nup, bh_ndown>>

(***************************************************************************)
(* The drop hooks of a Session: the field _dropper (session.rs:36), on_drop *)
(* (58-60), the closure of init_session that holds the backhaul tasks      *)
(* (client.rs:137-139), and the drop of the Session.  Session has no Drop  *)
(* implementation, so dropping it drops its fields in the order declared.  *)
(* A closure is [id, kind]; kind "backhaul" is the closure of init_session.*)
(***************************************************************************)
HookKinds == {"backhaul", "log", "count"}

InitDh ==
    /\ dh_dropper = <<>>
    /\ dh_tasks = FALSE
    /\ dh_torn = FALSE
    /\ dh_ran = <<>>
    /\ dh_destroyed = <<>>

\* client.rs:117-139: init_session spawns the backhaul tasks and registers
\* the closure that holds them
DH_InitSession ==
    /\ ~dh_torn /\ dh_dropper = <<>> /\ ~dh_tasks
    /\ dh_tasks' = TRUE
    /\ dh_dropper' = <<[id |-> 1, kind |-> "backhaul"]>>
    /\ UNCHANGED <<sessVars, exceptDh, dh_torn, dh_ran, dh_destroyed>>

\* session.rs:58-60: on_drop pushes the closure
DH_OnDrop(kind) ==
    /\ ~dh_torn /\ dh_dropper # <<>>
    /\ Len(dh_dropper) < MaxHooks
    /\ dh_dropper' = Append(dh_dropper, [id |-> Len(dh_dropper) + 1, kind |-> kind])
    /\ UNCHANGED <<sessVars, exceptDh, dh_tasks, dh_torn, dh_ran, dh_destroyed>>

\* the Session is dropped: the Vec _dropper destroys its boxed closures from
\* the first to the last without calling them; destroying the closure of
\* init_session drops the Vec of backhaul tasks, which cancels them
DH_DropSession ==
    /\ ~dh_torn /\ dh_dropper # <<>>
    /\ dh_torn' = TRUE
    /\ dh_destroyed' = dh_dropper
    /\ dh_dropper' = <<>>
    /\ dh_tasks' = FALSE
    /\ UNCHANGED <<sessVars, exceptDh, dh_ran>>

(***************************************************************************)
(* Multiplex (mux.rs:13-87): the facade over the channels to the multiplex *)
(* actor.  The actor is the environment: it takes and gives messages,      *)
(* answers or drops the reply channel of an open_conn request, and may end,*)
(* which drops its ends of all channels.  A send on a closed channel       *)
(* fails; a recv fails once the channel is closed and empty.               *)
(***************************************************************************)
\* a mapping to another error kind
ToIoError_BrokenPipe(val) == "BrokenPipe"

\* lines 21-23: to_ioerror
ToIoError(val) == "ConnectionReset"

NoCall == [op |-> "none", res |-> "Ok"]

InitMx ==
    /\ mx_closed = FALSE
    /\ mx_urel_send = 0
    /\ mx_urel_recv = 0
    /\ mx_conn_accept = 0
    /\ mx_opens = <<>>
    /\ mx_last = NoCall
    /\ mx_nopens = 0
    /\ mx_nconns = 0

\* lines 56-58: send_urel; send waits while the channel is full
MX_SendUrel ==
    /\ mx_closed \/ mx_urel_send < UrelCap
    /\ IF mx_closed
       THEN /\ mx_last' = [op |-> "send_urel", res |-> ToIoError("SendError")]
            /\ UNCHANGED mx_urel_send
       ELSE /\ mx_last' = [op |-> "send_urel", res |-> "Ok"]
            /\ mx_urel_send' = mx_urel_send + 1
    /\ UNCHANGED <<sessVars, exceptMx, mx_closed, mx_urel_recv, mx_conn_accept, mx_opens,
                   mx_nopens, mx_nconns>>

\* lines 61-63: recv_urel; recv waits while the channel is empty and open
MX_RecvUrel ==
    /\ mx_closed \/ mx_urel_recv > 0
    /\ IF mx_urel_recv > 0
       THEN /\ mx_last' = [op |-> "recv_urel", res |-> "Ok"]
            /\ mx_urel_recv' = mx_urel_recv - 1
       ELSE /\ mx_last' = [op |-> "recv_urel", res |-> ToIoError("RecvError")]
            /\ UNCHANGED mx_urel_recv
    /\ UNCHANGED <<sessVars, exceptMx, mx_closed, mx_urel_send, mx_conn_accept, mx_opens,
                   mx_nopens, mx_nconns>>

\* lines 84-86: accept_conn
MX_AcceptConn ==
    /\ mx_closed \/ mx_conn_accept > 0
    /\ IF mx_conn_accept > 0
       THEN /\ mx_last' = [op |-> "accept_conn", res |-> "Ok"]
            /\ mx_conn_accept' = mx_conn_accept - 1
       ELSE /\ mx_last' = [op |-> "accept_conn", res |-> ToIoError("RecvError")]
            /\ UNCHANGED mx_conn_accept
    /\ UNCHANGED <<sessVars, exceptMx, mx_closed, mx_urel_send, mx_urel_recv, mx_opens,
                   mx_nopens, mx_nconns>>

\* lines 71-76: open_conn makes its reply channel and sends the request on
\* conn_open (unbounded); a closed conn_open returns the error at once
MX_OpenConnRequest ==
    /\ mx_nopens < MaxOpens
    /\ mx_nopens' = mx_nopens + 1
    /\ IF mx_closed
       THEN /\ mx_last' = [op |-> "open_conn request", res |-> ToIoError("SendError")]
            /\ UNCHANGED mx_opens
       ELSE /\ mx_opens' = Append(mx_opens, "queued")
            /\ UNCHANGED mx_last
    /\ UNCHANGED <<sessVars, exceptMx, mx_closed, mx_urel_send, mx_urel_recv,
                   mx_conn_accept, mx_nconns>>

\* lines 77-80: recv.recv().await returns: the stream, or an error because
\* the reply channel was dropped, which becomes TimedOut
MX_OpenConnReturn(i) ==
    /\ i \in 1 .. Len(mx_opens)
    /\ mx_opens[i] # "queued"
    /\ mx_last' = [op |-> "open_conn reply",
                   res |-> IF mx_opens[i] = "replied" THEN "Ok" ELSE "TimedOut"]
    /\ mx_opens' = [k \in 1 .. Len(mx_opens) - 1 |->
                       IF k < i THEN mx_opens[k] ELSE mx_opens[k + 1]]
    /\ UNCHANGED <<sessVars, exceptMx, mx_closed, mx_urel_send, mx_urel_recv,
                   mx_conn_accept, mx_nopens, mx_nconns>>

\* the actor takes a message from urel_send
MX_ActorTakesUrel ==
    /\ ~mx_closed /\ mx_urel_send > 0
    /\ mx_urel_send' = mx_urel_send - 1
    /\ UNCHANGED <<sessVars, exceptMx, mx_closed, mx_urel_recv, mx_conn_accept, mx_opens,
                   mx_last, mx_nopens, mx_nconns>>

\* the actor gives a message to urel_recv
MX_ActorGivesUrel ==
    /\ ~mx_closed /\ mx_urel_recv < UrelCap
    /\ mx_urel_recv' = mx_urel_recv + 1
    /\ UNCHANGED <<sessVars, exceptMx, mx_closed, mx_urel_send, mx_conn_accept, mx_opens,
                   mx_last, mx_nopens, mx_nconns>>

\* the actor gives a stream to conn_accept
MX_ActorGivesConn ==
    /\ ~mx_closed /\ mx_conn_accept < AcceptCap
    /\ mx_nconns < MaxConns
    /\ mx_nconns' = mx_nconns + 1
    /\ mx_conn_accept' = mx_conn_accept + 1
    /\ UNCHANGED <<sessVars, exceptMx, mx_closed, mx_urel_send, mx_urel_recv, mx_opens,
                   mx_last, mx_nopens>>

\* the actor answers an open_conn request with a stream, or drops the
\* request's reply channel
MX_ActorAnswers(i, answer) ==
    /\ ~mx_closed
    /\ i \in 1 .. Len(mx_opens)
    /\ mx_opens[i] = "queued"
    /\ mx_opens' = [mx_opens EXCEPT ![i] = answer]
    /\ UNCHANGED <<sessVars, exceptMx, mx_closed, mx_urel_send, mx_urel_recv,
                   mx_conn_accept, mx_last, mx_nopens, mx_nconns>>

\* lines 34-45: the actor returns; its ends of the channels and the
\* requests it holds are dropped
MX_ActorEnds ==
    /\ ~mx_closed
    /\ mx_closed' = TRUE
    /\ mx_opens' = [k \in 1 .. Len(mx_opens) |->
                       IF mx_opens[k] = "queued" THEN "dropped" ELSE mx_opens[k]]
    /\ UNCHANGED <<sessVars, exceptMx, mx_urel_send, mx_urel_recv, mx_conn_accept,
                   mx_last, mx_nopens, mx_nconns>>

(***************************************************************************)
(* The keepalive actor (src/geph4-client/src/kalive.rs:58-251)             *)
(***************************************************************************)
\* the hostnames of the exits and of exit_host, as sequences of characters:
\* two that differ by a transposition and a longer one
Hostnames == {<<"a", "b">>, <<"b", "a">>, <<"a", "b", "b">>}

LeastOf(S) == CHOOSE x \in S : \A y \in S : x <= y

\* strsim::damerau_levenshtein as called at kalive.rs:99-100: the
\* unrestricted distance, with a row of the table per character of a, the
\* last row where each character was seen (elems) and the last matching
\* column of the row (db)
DamerauLevenshtein(a, b) ==
    LET la == Len(a)
        lb == Len(b)
        max_distance == la + lb
        LastRow(i, c) == LeastOf({0} \cup {0 - k : k \in {r \in 1 .. i - 1 : a[r] = c}})
        LastCol(i, j) == LeastOf({0} \cup {0 - l : l \in {c \in 1 .. j - 1 : b[c] = a[i]}})
        D[i \in 0 .. la, j \in 0 .. lb] ==
            IF i = 0 THEN j
            ELSE IF j = 0 THEN i
            ELSE LET k == 0 - LastRow(i, b[j])
                     db == 0 - LastCol(i, j)
                     insertion_cost == D[i - 1, j] + 1
                     deletion_cost == D[i, j - 1] + 1
                     transposition_cost ==
                         (IF k = 0 \/ db = 0 THEN max_distance ELSE D[k - 1, db - 1])
                             + (i - k - 1) + 1 + (j - db - 1)
                     substitution_cost == D[i - 1, j - 1] + (IF a[i] = b[j] THEN 0 ELSE 1)
                 IN  LeastOf({insertion_cost, deletion_cost, transposition_cost,
                              substitution_cost})
    IN  D[la, lb]

\* the distances of the hostnames, computed once
DistanceTable ==
    {<<p[1], p[2], DamerauLevenshtein(p[1], p[2])>> : p \in Hostnames \X Hostnames}

Distance(a, b) == (CHOOSE t \in DistanceTable : t[1] = a /\ t[2] = b)[3]

\* the exit list get_exits returns: one descriptor per hostname, each with
\* its own sosistab key
MakeExits(hs) == [i \in 1 .. Len(hs) |-> [hostname |-> hs[i], sosistab_key |-> i]]
ExitListsUpTo(n) == {MakeExits(hs) : hs \in UNION {[1 .. k -> Hostnames] : k \in 0 .. n}}

\* the list as get_exits returned it: a mutation of SortExits
SortExits_Unsorted(exits, exit_host) == exits

\* lines 98-101: sort_by is stable; an exit goes behind every exit that is
\* not farther from exit_host
InsertExit(sorted, e, exit_host) ==
    LET ahead == {i \in 1 .. Len(sorted) :
                     Distance(sorted[i].hostname, exit_host)
                         <= Distance(e.hostname, exit_host)}
        n == Cardinality(ahead)
    IN  SubSeq(sorted, 1, n) \o <<e>> \o SubSeq(sorted, n + 1, Len(sorted))

RECURSIVE SortExitsFrom(_, _, _)
SortExitsFrom(sorted, rest, exit_host) ==
    IF rest = <<>> THEN sorted
    ELSE SortExitsFrom(InsertExit(sorted, Head(rest), exit_host), Tail(rest), exit_host)

SortExits(exits, exit_host) == SortExitsFrom(<<>>, exits, exit_host)

\* line 140: the first exit of the sorted list with the hostname of exits[0]
ExitInfo(exits) ==
    exits[LeastOf({i \in 1 .. Len(exits) : exits[i].hostname = exits[1].hostname})]

NoExit == [hostname |-> <<>>, sosistab_key |-> 0]
NoError == "none"
KaErr(msg) == [ok |-> FALSE, msg |-> msg]

\* lines 66-80: the loop of keepalive_actor on the result of a body
SupervisorAfter(result) == IF result.ok THEN "body_start" ELSE "sleeping"

\* the body starts at once: a mutation of RestartDue
RestartDue_AtOnce(slept) == TRUE

\* line 78: Timer::after(1 s)
RestartDue(slept) == slept >= RestartMillis

SleepTickMillis == RestartMillis \div 2

InitKa ==
    /\ ka_exit_host = <<>>
    /\ ka_use_bridges = FALSE
    /\ ka_pc = "unstarted"
    /\ ka_fetched = <<>>
    /\ ka_exits = <<>>
    /\ ka_descriptor = NoExit
    /\ ka_targets = {}
    /\ ka_elapsed = 0
    /\ ka_err = NoError
    /\ ka_slept = 0

\* lines 19-39: Keepalive::new spawns keepalive_actor
KA_New(exit_host, use_bridges) ==
    /\ ka_pc = "unstarted"
    /\ ka_exit_host' = exit_host
    /\ ka_use_bridges' = use_bridges
    /\ ka_pc' = "body_start"
    /\ UNCHANGED <<sessVars, exceptKa, ka_fetched, ka_exits, ka_descriptor, ka_targets,
                   ka_elapsed, ka_err, ka_slept>>

\* the body returns result to keepalive_actor (lines 67-79)
KaBodyEnds(result) ==
    /\ ka_pc' = SupervisorAfter(result)
    /\ ka_err' = result.msg
    /\ ka_slept' = 0

\* lines 91, 94: get_exits fails
KA_GetExitsFails ==
    /\ ka_pc = "body_start"
    /\ ka_descriptor' = NoExit
    /\ KaBodyEnds(KaErr("can't get exits"))
    /\ UNCHANGED <<sessVars, exceptKa, ka_exit_host, ka_use_bridges, ka_fetched, ka_exits,
                   ka_targets, ka_elapsed>>

\* lines 91-97: get_exits returns an empty list
KA_NoExits ==
    /\ ka_pc = "body_start"
    /\ ka_descriptor' = NoExit
    /\ ka_fetched' = <<>>
    /\ KaBodyEnds(KaErr("no exits found"))
    /\ UNCHANGED <<sessVars, exceptKa, ka_exit_host, ka_use_bridges, ka_exits,
                   ka_targets, ka_elapsed>>

\* lines 91-102: get_exits returns exits, which are sorted by their
\* distance to exit_host
KA_SelectExit(exits) ==
    /\ ka_pc = "body_start"
    /\ exits # <<>>
    /\ ka_descriptor' = NoExit
    /\ ka_fetched' = exits
    /\ ka_exits' = SortExits(exits, ka_exit_host)
    /\ ka_pc' = "connecting"
    /\ ka_elapsed' = 0
    /\ UNCHANGED <<sessVars, exceptKa, ka_exit_host, ka_use_bridges, ka_targets, ka_err,
                   ka_slept>>

\* lines 158, 167: time passes while the session is being connected
KA_ConnTick ==
    /\ ka_pc = "connecting"
    /\ ka_elapsed < ConnectMillis
    /\ ka_elapsed' = ka_elapsed + FallbackMillis
    /\ UNCHANGED <<sessVars, exceptKa, ka_exit_host, ka_use_bridges, ka_pc, ka_fetched,
                   ka_exits, ka_descriptor, ka_targets, ka_err, ka_slept>>

\* lines 145-154: the direct handshake with exit_info
KA_DirectHandshake ==
    /\ ka_pc = "connecting"
    /\ ~ka_use_bridges
    /\ ka_targets' = ka_targets \cup
           {[hostname |-> ExitInfo(ka_exits).hostname,
             sosistab_key |-> ExitInfo(ka_exits).sosistab_key, via |-> "direct"]}
    /\ UNCHANGED <<sessVars, exceptKa, ka_exit_host, ka_use_bridges, ka_pc, ka_fetched,
                   ka_exits, ka_descriptor, ka_elapsed, ka_err, ka_slept>>

\* lines 148-150: the hostname of the exit does not resolve
KA_ResolveFails ==
    /\ ka_pc = "connecting"
    /\ ~ka_use_bridges
    /\ KaBodyEnds(KaErr("can't resolve hostname of exit"))
    /\ UNCHANGED <<sessVars, exceptKa, ka_exit_host, ka_use_bridges, ka_fetched, ka_exits,
                   ka_descriptor, ka_targets, ka_elapsed>>

\* lines 104-126: the handshakes through the bridges of exits[0], at once
\* with use_bridges and 5 s into the direct attempt without
KA_BridgeHandshake ==
    /\ ka_pc = "connecting"
    /\ ka_use_bridges \/ ka_elapsed >= FallbackMillis
    /\ ka_targets' = ka_targets \cup
           {[hostname |-> ka_exits[1].hostname, sosistab_key |-> 0, via |-> "bridge"]}
    /\ UNCHANGED <<sessVars, exceptKa, ka_exit_host, ka_use_bridges, ka_pc, ka_fetched,
                   ka_exits, ka_descriptor, ka_elapsed, ka_err, ka_slept>>

\* lines 105-112: get_bridges fails or returns no bridge
KA_BridgesFail(msg) ==
    /\ ka_pc = "connecting"
    /\ ka_use_bridges \/ ka_elapsed >= FallbackMillis
    /\ KaBodyEnds(KaErr(msg))
    /\ UNCHANGED <<sessVars, exceptKa, ka_exit_host, ka_use_bridges, ka_fetched, ka_exits,
                   ka_descriptor, ka_targets, ka_elapsed>>

\* lines 131-137, 145-154, 171-172: a handshake succeeds
KA_Connected ==
    /\ ka_pc = "connecting"
    /\ ka_targets # {}
    /\ ka_pc' = "authenticating"
    /\ UNCHANGED <<sessVars, exceptKa, ka_exit_host, ka_use_bridges, ka_fetched, ka_exits,
                   ka_descriptor, ka_targets, ka_elapsed, ka_err, ka_slept>>

\* lines 165-171: the 10 s timer wins
KA_ConnectTimeout ==
    /\ ka_pc = "connecting"
    /\ ka_elapsed >= ConnectMillis
    /\ KaBodyEnds(KaErr("initial connection timeout after 10"))
    /\ UNCHANGED <<sessVars, exceptKa, ka_exit_host, ka_use_bridges, ka_fetched, ka_exits,
                   ka_descriptor, ka_targets, ka_elapsed>>

\* lines 176-180: no token, authenticate_session fails or takes over 5 s
KA_AuthFails(msg) ==
    /\ ka_pc = "authenticating"
    /\ KaBodyEnds(KaErr(msg))
    /\ UNCHANGED <<sessVars, exceptKa, ka_exit_host, ka_use_bridges, ka_fetched, ka_exits,
                   ka_descriptor, ka_targets, ka_elapsed>>

\* lines 177-187: the session is authenticated and exits[0] is published
KA_Authenticated ==
    /\ ka_pc = "authenticating"
    /\ ka_descriptor' = ka_exits[1]
    /\ ka_pc' = "main_loop"
    /\ UNCHANGED <<sessVars, exceptKa, ka_exit_host, ka_use_bridges, ka_fetched, ka_exits,
                   ka_targets, ka_elapsed, ka_err, ka_slept>>

\* lines 204-250: one of the three duties returns
KA_MainLoopEnds(msg) ==
    /\ ka_pc = "main_loop"
    /\ KaBodyEnds(KaErr(msg))
    /\ UNCHANGED <<sessVars, exceptKa, ka_exit_host, ka_use_bridges, ka_fetched, ka_exits,
                   ka_descriptor, ka_targets, ka_elapsed>>

\* line 78: time passes in the timer of the supervisor
KA_SleepTick ==
    /\ ka_pc = "sleeping"
    /\ ~RestartDue(ka_slept)
    /\ ka_slept' = ka_slept + SleepTickMillis
    /\ UNCHANGED <<sessVars, exceptKa, ka_exit_host, ka_use_bridges, ka_pc, ka_fetched,
                   ka_exits, ka_descriptor, ka_targets, ka_elapsed, ka_err>>

\* lines 66-67, 78: the timer fires and the loop calls keepalive_actor_once
\* again, with nothing of the old body left
KA_Restart ==
    /\ ka_pc = "sleeping"
    /\ RestartDue(ka_slept)
    /\ ka_pc' = "body_start"
    /\ ka_fetched' = <<>>
    /\ ka_exits' = <<>>
    /\ ka_targets' = {}
    /\ ka_elapsed' = 0
    /\ UNCHANGED <<sessVars, exceptKa, ka_exit_host, ka_use_bridges, ka_descriptor, ka_err,
                   ka_slept>>

BridgeErrors == {"can't get bridges", "absolutely no bridges found"}
AuthErrors == {"no auth token", "authentication timed out"}
MainLoopErrors == {"watchdog timed out", "normal connection timed out",
                   "cannot get socks5 connect request"}

(***************************************************************************)
(* The connection attempt of a keepalive body: the direct handshake, the   *)
(* bridges and the deadline (src/geph4-client/src/kalive.rs:104-171)       *)
(***************************************************************************)
kaConnFixed == <<ka_exit_host, ka_use_bridges, ka_fetched, ka_exits, ka_descriptor,
                ka_elapsed>>

\* lines 142-145: the direct attempt is part of the race without use_bridges
DirectAttempted(use_bridges) == ~use_bridges

\* the bridges are tried from the start: a mutation of BridgeStartDue
BridgeStartDue_AtOnce(use_bridges, elapsed) == TRUE

\* lines 142-143, 157-160: bridge_sess_async is awaited at once with
\* use_bridges and behind Timer::after(5 s) without
BridgeStartDue(use_bridges, elapsed) == use_bridges \/ elapsed >= FallbackMillis

\* the 10 s timer is missing: a mutation of DeadlineDue
DeadlineDue_Never(elapsed) == FALSE

\* lines 166-168: Timer::after(10 s)
DeadlineDue(elapsed) == elapsed >= ConnectMillis

\* line 115: _tasks is dropped with bridge_sess_async, which cancels the
\* handshakes still running
DropTasks(hs) ==
    [b \in 1 .. Len(hs) |-> IF hs[b] = "running" THEN "cancelled" ELSE hs[b]]

\* lines 145-154: the direct future is dropped with connected_sess_async
DropDirect(direct) ==
    IF direct \in {"resolving", "handshaking"} THEN "cancelled" ELSE direct

\* line 114, 118: the senders of the result channel: send itself, alive as
\* long as bridge_sess_async, and the clone each running task holds. recv
\* at line 133 returns an error ("ran out of bridges") only when the
\* channel is empty and has no sender, which is never the case while the
\* selector runs: no step of the model takes that branch
ResultSenders(bridge, hs) ==
    (IF bridge = "selecting" THEN 1 ELSE 0)
        + Cardinality({b \in 1 .. Len(hs) : hs[b] = "running"})

InitCn ==
    /\ cn_stage = "idle"
    /\ cn_direct = "unused"
    /\ cn_bridge = "none"
    /\ cn_bridge_at = -1
    /\ cn_hs = <<>>
    /\ cn_chan = <<>>
    /\ cn_via = -1

\* lines 141-170: connected_sess_async and the 10 s timer are dropped
CnDropped ==
    /\ cn_stage' = "done"
    /\ cn_hs' = DropTasks(cn_hs)
    /\ cn_bridge' = IF cn_bridge = "none" THEN "none" ELSE "dropped"

\* line 171: session? returns the error to keepalive_actor
CnFails(msg) ==
    /\ CnDropped
    /\ cn_direct' = DropDirect(cn_direct)
    /\ KaBodyEnds(KaErr(msg))
    /\ UNCHANGED <<sessVars, exceptKaCn, kaConnFixed, ka_targets, cn_bridge_at, cn_chan,
                   cn_via>>

\* lines 141-165: the race is polled for the first time
CN_Begin ==
    /\ ka_pc = "connecting"
    /\ cn_stage # "racing"
    /\ cn_stage' = "racing"
    /\ cn_direct' = IF DirectAttempted(ka_use_bridges) THEN "resolving" ELSE "unused"
    /\ cn_bridge' = "none"
    /\ cn_bridge_at' = -1
    /\ cn_hs' = <<>>
    /\ cn_chan' = <<>>
    /\ cn_via' = -1
    /\ UNCHANGED <<sessVars, exceptKaCn, kaVars>>

\* lines 148-150: the hostname of the exit does not resolve
CN_ResolveFails ==
    /\ ka_pc = "connecting" /\ cn_stage = "racing"
    /\ cn_direct = "resolving"
    /\ CnFails("can't resolve hostname of exit")

\* lines 147-152: the hostname resolves and sosistab::connect starts
CN_Resolved ==
    /\ ka_pc = "connecting" /\ cn_stage = "racing"
    /\ cn_direct = "resolving"
    /\ cn_direct' = "handshaking"
    /\ ka_targets' = ka_targets \cup
           {[hostname |-> ExitInfo(ka_exits).hostname,
             sosistab_key |-> ExitInfo(ka_exits).sosistab_key, via |-> "direct"]}
    /\ UNCHANGED <<sessVars, exceptKaCn, kaConnFixed, ka_pc, ka_err, ka_slept, cn_stage,
                   cn_bridge, cn_bridge_at, cn_hs, cn_chan, cn_via>>

\* lines 146, 153-154: sosistab::connect returns an error and infal never
\* returns
CN_DirectFails ==
    /\ ka_pc = "connecting" /\ cn_stage = "racing"
    /\ cn_direct = "handshaking"
    /\ cn_direct' = "failed"
    /\ UNCHANGED <<sessVars, exceptKaCn, kaVars, cn_stage, cn_bridge, cn_bridge_at, cn_hs,
                   cn_chan, cn_via>>

\* lines 146-155, 165, 171: sosistab::connect returns a session
CN_DirectOk ==
    /\ ka_pc = "connecting" /\ cn_stage = "racing"
    /\ cn_direct = "handshaking"
    /\ cn_direct' = "ok"
    /\ cn_via' = 0
    /\ CnDropped
    /\ ka_pc' = "authenticating"
    /\ UNCHANGED <<sessVars, exceptKaCn, kaConnFixed, ka_targets, ka_err, ka_slept,
                   cn_bridge_at, cn_chan>>

\* lines 104-108, 142-143, 157-160: bridge_sess_async starts with get_bridges
CN_BridgeStart ==
    /\ ka_pc = "connecting" /\ cn_stage = "racing"
    /\ cn_bridge = "none"
    /\ BridgeStartDue(ka_use_bridges, ka_elapsed)
    /\ cn_bridge' = "fetching"
    /\ cn_bridge_at' = ka_elapsed
    /\ UNCHANGED <<sessVars, exceptKaCn, kaVars, cn_stage, cn_direct, cn_hs, cn_chan,
                   cn_via>>

\* lines 105-108: get_bridges fails
CN_GetBridgesFails ==
    /\ ka_pc = "connecting" /\ cn_stage = "racing"
    /\ cn_bridge = "fetching"
    /\ CnFails("can't get bridges")

\* lines 110-112: get_bridges returns no bridge
CN_NoBridges ==
    /\ ka_pc = "connecting" /\ cn_stage = "racing"
    /\ cn_bridge = "fetching"
    /\ CnFails("absolutely no bridges found")

\* lines 113-127: get_bridges returns n bridges and a task is spawned for
\* each
CN_SpawnBridges(n) ==
    /\ ka_pc = "connecting" /\ cn_stage = "racing"
    /\ cn_bridge = "fetching"
    /\ n >= 1
    /\ cn_bridge' = "selecting"
    /\ cn_hs' = [b \in 1 .. n |-> "running"]
    /\ ka_targets' = ka_targets \cup
           {[hostname |-> ka_exits[1].hostname, sosistab_key |-> 0, via |-> "bridge"]}
    /\ UNCHANGED <<sessVars, exceptKaCn, kaConnFixed, ka_pc, ka_err, ka_slept, cn_stage,
                   cn_direct, cn_bridge_at, cn_chan, cn_via>>

\* lines 118-126: the handshake of bridge b ends and its task sends the
\* result
CN_HandshakeEnds(b, ok) ==
    /\ ka_pc = "connecting" /\ cn_stage = "racing"
    /\ cn_bridge = "selecting"
    /\ b \in 1 .. Len(cn_hs)
    /\ cn_hs[b] = "running"
    /\ cn_hs' = [cn_hs EXCEPT ![b] = IF ok THEN "ok" ELSE "failed"]
    /\ cn_chan' = Append(cn_chan, [bridge |-> b, ok |-> ok])
    /\ UNCHANGED <<sessVars, exceptKaCn, kaVars, cn_stage, cn_direct, cn_bridge,
                   cn_bridge_at, cn_via>>

\* lines 132-137: the selector receives the result of a failed handshake
\* and loops
CN_SelectSkip ==
    /\ ka_pc = "connecting" /\ cn_stage = "racing"
    /\ cn_bridge = "selecting"
    /\ cn_chan # <<>>
    /\ ~Head(cn_chan).ok
    /\ cn_chan' = Tail(cn_chan)
    /\ UNCHANGED <<sessVars, exceptKaCn, kaVars, cn_stage, cn_direct, cn_bridge,
                   cn_bridge_at, cn_hs, cn_via>>

\* lines 132-136, 165, 171: the selector receives a session
CN_SelectOk ==
    /\ ka_pc = "connecting" /\ cn_stage = "racing"
    /\ cn_bridge = "selecting"
    /\ cn_chan # <<>>
    /\ Head(cn_chan).ok
    /\ cn_chan' = Tail(cn_chan)
    /\ cn_via' = Head(cn_chan).bridge
    /\ CnDropped
    /\ cn_direct' = DropDirect(cn_direct)
    /\ ka_pc' = "authenticating"
    /\ UNCHANGED <<sessVars, exceptKaCn, kaConnFixed, ka_targets, ka_err, ka_slept,
                   cn_bridge_at>>

\* lines 165-171: the 10 s timer fires
CN_Deadline ==
    /\ ka_pc = "connecting" /\ cn_stage = "racing"
    /\ DeadlineDue(ka_elapsed)
    /\ CnFails("initial connection timeout after 10")

(***************************************************************************)
(* Authentication and the main loop of a keepalive body: watchdog,         *)
(* dispatcher, stop channel (src/geph4-client/src/kalive.rs:172-250) and   *)
(* the callers of Keepalive::connect (kalive.rs:42-48)                     *)
(***************************************************************************)
kaMlFixed == <<ka_exit_host, ka_use_bridges, ka_fetched, ka_exits, ka_targets, ka_elapsed>>

\* authentication never times out: a mutation of AuthTimedOut
AuthTimedOut_Never(elapsed) == FALSE

\* line 178: .timeout(5 s) on authenticate_session
AuthTimedOut(elapsed) == elapsed >= AuthMillis

\* the probe is opened at once: a mutation of ProbeDue
ProbeDue_AtOnce(elapsed) == TRUE

\* line 191: Timer::after(200 s) of the watchdog
ProbeDue(elapsed) == elapsed >= WatchdogMillis

\* lines 194, 220: .timeout(15 s) on open_conn
OpenTimedOut(elapsed) == elapsed >= OpenMillis

\* every stream goes to the first request: a mutation of ReplyOf
ReplyOf_First(i) == 1

\* lines 207-215, 230: the task of request i owns conn_reply of request i
ReplyOf(i) == i

\* the requests still opening stay as they are when the body ends: a
\* mutation of DropRequests
DropRequests_Keep(reqs) == reqs

\* lines 188-250: the tasks of scope are dropped with the body; the reply
\* channels of the requests still opening are closed and their timers go
DropRequests(reqs) ==
    [i \in 1 .. Len(reqs) |->
        IF reqs[i].st = "opening"
        THEN [reqs[i] EXCEPT !.st = "cancelled", !.elapsed = 0, !.reply = -1]
        ELSE reqs[i]]

InitMl ==
    /\ ml_stage = "idle"
    /\ ml_timer = 0
    /\ ml_authed = FALSE
    /\ ml_mux = "alive"
    /\ ml_duties = FALSE
    /\ ml_wd = [pc |-> "off", elapsed |-> 0]
    /\ ml_stop = <<>>
    /\ ml_queue = <<>>
    /\ ml_reqs = <<>>
    /\ ml_here = {}

\* the body returns Err(msg) from authentication or the main loop; the
\* Multiplex, the timers, the watchdog, the stop channel and the stats
\* responder with the request it has in hand are dropped
MlEnds(msg) ==
    /\ ml_stage' = "done"
    /\ ml_timer' = 0
    /\ ml_mux' = "dropped"
    /\ ml_wd' = [pc |-> "off", elapsed |-> 0]
    /\ ml_stop' = <<>>
    /\ ml_reqs' = DropRequests(ml_reqs)
    /\ ks_pc' = "recv"
    /\ ks_req' = 0
    /\ ks_calls' = [c \in DOMAIN ks_calls |->
                        IF c = ks_req /\ ks_calls[c] = "waiting" THEN "error"
                        ELSE ks_calls[c]]
    /\ KaBodyEnds(KaErr(msg))
    /\ UNCHANGED <<sessVars, exceptKaMlKs, kaMlFixed, ka_descriptor, ml_authed,
                   ml_duties, ml_queue, ml_here, ks_queue>>

\* lines 42-46: a caller of Keepalive::connect sends its request
ML_Connect ==
    /\ ka_pc # "unstarted"
    /\ Len(ml_reqs) < MaxReqs
    /\ ml_reqs' = Append(ml_reqs, [st |-> "queued", elapsed |-> 0, reply |-> 0])
    /\ ml_queue' = Append(ml_queue, Len(ml_reqs) + 1)
    /\ UNCHANGED <<sessVars, exceptKaMl, kaVars, ml_stage, ml_timer, ml_authed, ml_mux,
                   ml_duties, ml_wd, ml_stop, ml_here>>

\* lines 172-176: Multiplex::new, the stop channel, get_auth_token is called
ML_Begin ==
    /\ ka_pc = "authenticating"
    /\ ml_stage \notin {"token", "auth"}
    /\ ml_stage' = "token"
    /\ ml_timer' = 0
    /\ ml_authed' = FALSE
    /\ ml_mux' = "alive"
    /\ ml_duties' = FALSE
    /\ ml_wd' = [pc |-> "off", elapsed |-> 0]
    /\ ml_stop' = <<>>
    /\ ml_here' = {}
    /\ UNCHANGED <<sessVars, exceptKaMl, kaVars, ml_queue, ml_reqs>>

\* line 176: get_auth_token fails
ML_TokenFails ==
    /\ ka_pc = "authenticating" /\ ml_stage = "token"
    /\ MlEnds("no auth token")

\* lines 176-178: the token is there and authenticate_session is called
ML_GotToken ==
    /\ ka_pc = "authenticating" /\ ml_stage = "token"
    /\ ml_stage' = "auth"
    /\ ml_timer' = 0
    /\ UNCHANGED <<sessVars, exceptKaMl, kaVars, ml_authed, ml_mux, ml_duties, ml_wd,
                   ml_stop, ml_queue, ml_reqs, ml_here>>

\* lines 34-45 of mux.rs: the actor of the Multiplex ends
ML_MuxDies ==
    /\ ml_stage \in {"auth", "main"}
    /\ ml_mux = "alive"
    /\ ml_mux' = "dead"
    /\ UNCHANGED <<sessVars, exceptKaMl, kaVars, ml_stage, ml_timer, ml_authed, ml_duties,
                   ml_wd, ml_stop, ml_queue, ml_reqs, ml_here>>

\* lines 177-180, 266-277: open_conn, write_pascalish or read_pascalish
\* returns an error
ML_AuthFails ==
    /\ ka_pc = "authenticating" /\ ml_stage = "auth"
    /\ MlEnds("authentication error")

\* lines 178-180: the 5 s are over
ML_AuthTimeout ==
    /\ ka_pc = "authenticating" /\ ml_stage = "auth"
    /\ AuthTimedOut(ml_timer)
    /\ MlEnds("authentication timed out")

\* lines 177-203, 277-278: authenticate_session reads the reply byte, which
\* it does not look at, and returns Ok; exits[0] is published and the
\* watchdog, the dispatcher, the stop receiver and the stats responder start
ML_Authenticated(reply) ==
    /\ ka_pc = "authenticating" /\ ml_stage = "auth"
    /\ ml_mux = "alive"
    /\ ml_authed' = TRUE
    /\ ka_descriptor' = ka_exits[1]
    /\ ka_pc' = "main_loop"
    /\ ml_stage' = "main"
    /\ ml_duties' = TRUE
    /\ ml_wd' = [pc |-> "timer", elapsed |-> 0]
    /\ UNCHANGED <<sessVars, exceptKaMl, kaMlFixed, ka_err, ka_slept, ml_timer, ml_mux,
                   ml_stop, ml_queue, ml_reqs, ml_here>>

\* the time left on the timers that run
MlTimers ==
    (IF ml_stage = "auth" THEN {AuthMillis - ml_timer} ELSE {})
        \cup (IF ml_stage = "main" /\ ml_wd.pc = "timer"
              THEN {WatchdogMillis - ml_wd.elapsed} ELSE {})
        \cup (IF ml_stage = "main" /\ ml_wd.pc = "probe"
              THEN {OpenMillis - ml_wd.elapsed} ELSE {})
        \cup (IF ml_stage = "main"
              THEN {OpenMillis - ml_reqs[i].elapsed :
                       i \in {j \in 1 .. Len(ml_reqs) : ml_reqs[j].st = "opening"}}
              ELSE {})

\* an open_conn is under way on the Multiplex
MlOpening ==
    \/ ml_stage = "main" /\ ml_wd.pc = "probe"
    \/ ml_stage = "main" /\ \E i \in 1 .. Len(ml_reqs) : ml_reqs[i].st = "opening"

\* time passes up to the next timer; a stop message and the error of an
\* open_conn on a dead Multiplex are handled before
ML_Tick ==
    /\ ml_stage \in {"auth", "main"}
    /\ MlTimers # {}
    /\ \A t \in MlTimers : t > 0
    /\ ml_stop = <<>>
    /\ ~(ml_mux = "dead" /\ MlOpening)
    /\ LET d == LeastOf(MlTimers)
       IN  /\ ml_timer' = IF ml_stage = "auth" THEN ml_timer + d ELSE ml_timer
           /\ ml_wd' = IF ml_stage = "main" /\ ml_wd.pc \in {"timer", "probe"}
                       THEN [ml_wd EXCEPT !.elapsed = @ + d] ELSE ml_wd
           /\ ml_reqs' = [i \in 1 .. Len(ml_reqs) |->
                             IF ml_stage = "main" /\ ml_reqs[i].st = "opening"
                             THEN [ml_reqs[i] EXCEPT !.elapsed = @ + d]
                             ELSE ml_reqs[i]]
    /\ UNCHANGED <<sessVars, exceptKaMl, kaVars, ml_stage, ml_authed, ml_mux, ml_duties,
                   ml_stop, ml_queue, ml_here>>

\* lines 191-194: the 200 s are over and the watchdog opens a probe stream
ML_Probe ==
    /\ ml_stage = "main" /\ ml_wd.pc = "timer"
    /\ ProbeDue(ml_wd.elapsed)
    /\ ml_wd' = [pc |-> "probe", elapsed |-> 0]
    /\ UNCHANGED <<sessVars, exceptKaMl, kaVars, ml_stage, ml_timer, ml_authed, ml_mux,
                   ml_duties, ml_stop, ml_queue, ml_reqs, ml_here>>

\* lines 192-196: the probe is opened and the watchdog loops
ML_ProbeOk ==
    /\ ml_stage = "main" /\ ml_wd.pc = "probe"
    /\ ml_mux = "alive"
    /\ ml_wd' = [pc |-> "timer", elapsed |-> 0]
    /\ UNCHANGED <<sessVars, exceptKaMl, kaVars, ml_stage, ml_timer, ml_authed, ml_mux,
                   ml_duties, ml_stop, ml_queue, ml_reqs, ml_here>>

\* lines 192-196: open_conn returns an error, which is Some(Err) and not
\* None, and the watchdog loops
ML_ProbeErr ==
    /\ ml_stage = "main" /\ ml_wd.pc = "probe"
    /\ ml_wd' = [pc |-> "timer", elapsed |-> 0]
    /\ UNCHANGED <<sessVars, exceptKaMl, kaVars, ml_stage, ml_timer, ml_authed, ml_mux,
                   ml_duties, ml_stop, ml_queue, ml_reqs, ml_here>>

\* lines 192-200: the 15 s of the probe are over; the watchdog sends the
\* stop message and returns
ML_ProbeTimeout ==
    /\ ml_stage = "main" /\ ml_wd.pc = "probe"
    /\ OpenTimedOut(ml_wd.elapsed)
    /\ ml_wd' = [ml_wd EXCEPT !.pc = "returned"]
    /\ ml_stop' = Append(ml_stop, "watchdog timed out")
    /\ UNCHANGED <<sessVars, exceptKaMl, kaVars, ml_stage, ml_timer, ml_authed, ml_mux,
                   ml_duties, ml_queue, ml_reqs, ml_here>>

\* lines 207-221: the dispatcher receives a request and spawns its task,
\* which calls open_conn
ML_Dispatch ==
    /\ ml_stage = "main"
    /\ ml_queue # <<>>
    /\ ml_queue' = Tail(ml_queue)
    /\ ml_reqs' = [ml_reqs EXCEPT ![Head(ml_queue)].st = "opening"]
    /\ ml_here' = ml_here \cup {Head(ml_queue)}
    /\ UNCHANGED <<sessVars, exceptKaMl, kaVars, ml_stage, ml_timer, ml_authed, ml_mux,
                   ml_duties, ml_wd, ml_stop>>

\* lines 222-231: the stream of request i is open and is sent to conn_reply
ML_OpenOk(i) ==
    /\ ml_stage = "main"
    /\ i \in 1 .. Len(ml_reqs)
    /\ ml_reqs[i].st = "opening"
    /\ ml_mux = "alive"
    /\ ml_reqs' = [k \in 1 .. Len(ml_reqs) |->
                      IF k = i /\ k = ReplyOf(i)
                          THEN [ml_reqs[k] EXCEPT !.st = "delivered", !.elapsed = 0, !.reply = i]
                      ELSE IF k = i
                          THEN [ml_reqs[k] EXCEPT !.st = "delivered", !.elapsed = 0]
                      ELSE IF k = ReplyOf(i) THEN [ml_reqs[k] EXCEPT !.reply = i]
                      ELSE ml_reqs[k]]
    /\ UNCHANGED <<sessVars, exceptKaMl, kaVars, ml_stage, ml_timer, ml_authed, ml_mux,
                   ml_duties, ml_wd, ml_stop, ml_queue, ml_here>>

\* lines 222-223: open_conn returns an error; remote.ok()? ends the task,
\* which drops conn_reply
ML_OpenErr(i) ==
    /\ ml_stage = "main"
    /\ i \in 1 .. Len(ml_reqs)
    /\ ml_reqs[i].st = "opening"
    /\ ml_reqs' = [ml_reqs EXCEPT ![i].st = "failed", ![i].elapsed = 0, ![i].reply = -1]
    /\ UNCHANGED <<sessVars, exceptKaMl, kaVars, ml_stage, ml_timer, ml_authed, ml_mux,
                   ml_duties, ml_wd, ml_stop, ml_queue, ml_here>>

\* lines 217-236: the 15 s of request i are over; its task sends the stop
\* message and ends, which drops conn_reply
ML_OpenTimeout(i) ==
    /\ ml_stage = "main"
    /\ i \in 1 .. Len(ml_reqs)
    /\ ml_reqs[i].st = "opening"
    /\ OpenTimedOut(ml_reqs[i].elapsed)
    /\ ml_reqs' = [ml_reqs EXCEPT ![i].st = "timedout", ![i].elapsed = 0, ![i].reply = -1]
    /\ ml_stop' = Append(ml_stop, "normal connection timed out")
    /\ UNCHANGED <<sessVars, exceptKaMl, kaVars, ml_stage, ml_timer, ml_authed, ml_mux,
                   ml_duties, ml_wd, ml_queue, ml_here>>

\* line 241: the stop receiver gets a message and the body returns it
ML_Stop ==
    /\ ml_stage = "main"
    /\ ml_stop # <<>>
    /\ MlEnds(Head(ml_stop))

\* lines 242-248: the caller of get_stats is gone and stat_send.send fails
ML_StatsFails ==
    /\ ml_stage = "main"
    /\ MlEnds("stats reply failed")

(***************************************************************************)
(* What a shard sends upstream (client.rs:230-260): the socket of a rebind *)
(* is bound in a loop that waits 1 s after a failed bind; then come the    *)
(* ClientResume and the frame in hand.                                     *)
(***************************************************************************)
InitBw ==
    /\ bw_frame = [s \in ShardIds |-> 0]
    /\ bw_sent = [s \in ShardIds |-> <<>>]
    /\ bw_retry = [s \in ShardIds |-> -1]
    /\ bw_fails = 0

(***************************************************************************)
(* session_recv_loop as two loops raced in one task (session.rs:202-269):  *)
(* the receive loop takes seqnos.write() and decoder.write(), and the       *)
(* guard of decoder.write() is a temporary of the if let of line 236, alive *)
(* until the for of lines 243-245 has sent every item to send_input; the    *)
(* stats loop takes decoder.read() and seqnos.read() for each request of    *)
(* Session::get_stats (76-80).  Payloads and frames are counted, not        *)
(* told apart; the in-bound channel holds InputCap payloads.                *)
(***************************************************************************)
StatCalls == 1 .. MaxStatCalls
FreeLock == [writer |-> FALSE, readers |-> 0]

\* RwLock::read: granted unless a writer holds the lock
CanRead(lock) == ~lock.writer

\* RwLock::write: granted when nobody holds the lock
CanWrite(lock) == ~lock.writer /\ lock.readers = 0

InitSt ==
    /\ st_rl = "recv"
    /\ st_out = 0
    /\ st_input = 0
    /\ st_dec = FreeLock
    /\ st_seq = FreeLock
    /\ st_sl = "recv"
    /\ st_statreq = <<>>
    /\ st_calls = [c \in StatCalls |-> "none"]
    /\ st_frames = 0

\* line 217: a frame is taken from cfg.recv_frame and passes the replay filter
ST_Frame ==
    /\ st_rl = "recv"
    /\ st_frames < MaxStatFrames
    /\ st_frames' = st_frames + 1
    /\ st_rl' = "seqnos"
    /\ UNCHANGED <<sessVars, exceptSt, st_out, st_input, st_dec, st_seq, st_sl, st_statreq,
                   st_calls>>

\* lines 225-231: seqnos.write().await, push_back, and the guard is dropped
\* at the end of the block
ST_PushSeqno ==
    /\ st_rl = "seqnos"
    /\ CanWrite(st_seq)
    /\ st_rl' = "decoder"
    /\ UNCHANGED <<sessVars, exceptSt, st_out, st_input, st_dec, st_seq, st_sl, st_statreq,
                   st_calls, st_frames>>

\* lines 236-242: decoder.write().await.input(..) returns n payloads; the
\* guard lives on while there are payloads to send
ST_Input(n) ==
    /\ st_rl = "decoder"
    /\ CanWrite(st_dec)
    /\ st_out' = n
    /\ IF n = 0
       THEN st_rl' = "recv" /\ st_dec' = st_dec
       ELSE st_rl' = "deliver" /\ st_dec' = [st_dec EXCEPT !.writer = TRUE]
    /\ UNCHANGED <<sessVars, exceptSt, st_input, st_seq, st_sl, st_statreq, st_calls,
                   st_frames>>

\* lines 243-246: send_input.send(item).await, blocking while the in-bound
\* channel is full; after the last item the if let ends and the guard is
\* dropped
ST_Deliver ==
    /\ st_rl = "deliver"
    /\ st_input < InputCap
    /\ st_input' = st_input + 1
    /\ st_out' = st_out - 1
    /\ IF st_out = 1
       THEN st_rl' = "recv" /\ st_dec' = [st_dec EXCEPT !.writer = FALSE]
       ELSE st_rl' = "deliver" /\ st_dec' = st_dec
    /\ UNCHANGED <<sessVars, exceptSt, st_seq, st_sl, st_statreq, st_calls, st_frames>>

\* Session::recv_bytes (71-73): the consumer takes a payload
ST_RecvBytes ==
    /\ st_input > 0
    /\ st_input' = st_input - 1
    /\ UNCHANGED <<sessVars, exceptSt, st_rl, st_out, st_dec, st_seq, st_sl, st_statreq,
                   st_calls, st_frames>>

\* Session::get_stats, lines 77-78: the request is sent and the caller
\* awaits the reply
ST_GetStats(c) ==
    /\ st_calls[c] = "none"
    /\ \A d \in StatCalls : d < c => st_calls[d] # "none"
    /\ st_calls' = [st_calls EXCEPT ![c] = "waiting"]
    /\ st_statreq' = Append(st_statreq, c)
    /\ UNCHANGED <<sessVars, exceptSt, st_rl, st_out, st_input, st_dec, st_seq, st_sl,
                   st_frames>>

\* the future of get_stats is dropped while it awaits the reply
ST_DropCall(c) ==
    /\ st_calls[c] = "waiting"
    /\ st_calls' = [st_calls EXCEPT ![c] = "dropped"]
    /\ UNCHANGED <<sessVars, exceptSt, st_rl, st_out, st_input, st_dec, st_seq, st_sl,
                   st_statreq, st_frames>>

\* line 253: the stats loop takes a request
ST_TakeReq ==
    /\ st_sl = "recv"
    /\ st_statreq # <<>>
    /\ st_sl' = "decoder"
    /\ UNCHANGED <<sessVars, exceptSt, st_rl, st_out, st_input, st_dec, st_seq, st_statreq,
                   st_calls, st_frames>>

\* line 254: decoder.read().await; the guard is a local of the loop body
ST_ReadDecoder ==
    /\ st_sl = "decoder"
    /\ CanRead(st_dec)
    /\ st_dec' = [st_dec EXCEPT !.readers = @ + 1]
    /\ st_sl' = "seqnos"
    /\ UNCHANGED <<sessVars, exceptSt, st_rl, st_out, st_input, st_seq, st_statreq,
                   st_calls, st_frames>>

\* lines 255-266: the snapshot is built; seqnos.read().await is a temporary
\* of the statement
ST_Snapshot ==
    /\ st_sl = "seqnos"
    /\ CanRead(st_seq)
    /\ st_sl' = "reply"
    /\ UNCHANGED <<sessVars, exceptSt, st_rl, st_out, st_input, st_dec, st_seq, st_statreq,
                   st_calls, st_frames>>

\* lines 267-268: infal(req.send(response)): the reply is sent and the
\* iteration ends, dropping the guard of decoder.read(); if the receiver is
\* gone the send fails and infal awaits pending() with the guard alive
ST_Reply ==
    /\ st_sl = "reply"
    /\ LET c == Head(st_statreq) IN
          IF st_calls[c] = "waiting"
          THEN /\ st_calls' = [st_calls EXCEPT ![c] = "answered"]
               /\ st_dec' = [st_dec EXCEPT !.readers = @ - 1]
               /\ st_sl' = "recv"
          ELSE /\ st_sl' = "pending"
               /\ UNCHANGED <<st_calls, st_dec>>
    /\ st_statreq' = Tail(st_statreq)
    /\ UNCHANGED <<sessVars, exceptSt, st_rl, st_out, st_input, st_seq, st_frames>>

(***************************************************************************)
(* Keepalive::get_stats (kalive.rs:51-55) and the stats responder of the    *)
(* main loop (242-248).  The channel of get_stats belongs to the Keepalive  *)
(* and outlives the bodies; the responder belongs to a body.                *)
(***************************************************************************)
InitKs ==
    /\ ks_calls = [c \in StatCalls |-> "none"]
    /\ ks_queue = <<>>
    /\ ks_pc = "recv"
    /\ ks_req = 0

\* lines 52-54: a caller of Keepalive::get_stats sends its request and
\* awaits the reply
KS_GetStats(c) ==
    /\ ka_pc # "unstarted"
    /\ ks_calls[c] = "none"
    /\ \A d \in StatCalls : d < c => ks_calls[d] # "none"
    /\ ks_calls' = [ks_calls EXCEPT ![c] = "waiting"]
    /\ ks_queue' = Append(ks_queue, c)
    /\ UNCHANGED <<sessVars, exceptKaMlKs, kaVars, mlVars, ks_pc, ks_req>>

\* the future of get_stats is dropped while it awaits the reply, and recv
\* with it
KS_DropCall(c) ==
    /\ ks_calls[c] = "waiting"
    /\ ks_calls' = [ks_calls EXCEPT ![c] = "dropped"]
    /\ UNCHANGED <<sessVars, exceptKaMlKs, kaVars, mlVars, ks_queue, ks_pc, ks_req>>

\* line 244: the responder receives a request
KS_Take ==
    /\ ml_stage = "main"
    /\ ks_pc = "recv"
    /\ ks_queue # <<>>
    /\ ks_req' = Head(ks_queue)
    /\ ks_queue' = Tail(ks_queue)
    /\ ks_pc' = "session"
    /\ UNCHANGED <<sessVars, exceptKaMlKs, kaVars, mlVars, ks_calls>>

\* line 245: Session::get_stats returns the snapshot
KS_SessionStats ==
    /\ ml_stage = "main"
    /\ ks_pc = "session"
    /\ ks_pc' = "reply"
    /\ UNCHANGED <<sessVars, exceptKaMlKs, kaVars, mlVars, ks_calls, ks_queue, ks_req>>

\* line 246: stat_send.send(stats).await? succeeds while the caller holds
\* the receiver, and the responder loops
KS_Reply ==
    /\ ml_stage = "main"
    /\ ks_pc = "reply"
    /\ ks_calls[ks_req] = "waiting"
    /\ ks_calls' = [ks_calls EXCEPT ![ks_req] = "answered"]
    /\ ks_pc' = "recv"
    /\ ks_req' = 0
    /\ UNCHANGED <<sessVars, exceptKaMlKs, kaVars, mlVars, ks_queue>>

\* line 246: the receiver is gone, send returns an error and ? returns it
\* from the body
KS_ReplyFails ==
    /\ ml_stage = "main"
    /\ ks_pc = "reply"
    /\ ks_calls[ks_req] # "waiting"
    /\ MlEnds("stats reply failed")

InitExt == InitLoss /\ InitU8 /\ InitHs /\ InitBh /\ InitDh /\ InitMx /\ InitKa /\ InitCn /\ InitMl /\ InitBw /\ InitSt /\ InitKs

(***************************************************************************)
(* SpecSend: send_bytes callers, the send loop and a backhaul taking the   *)
(* frames                                                                  *)
(***************************************************************************)
InitAll == InitRF /\ InitSend /\ InitRecv /\ InitExt

NextSend ==
    \/ (n_submitted < MaxSubmit /\ SendBytes(n_submitted + 1))
    \/ SL_RecvFirst
    \/ SL_Gather
    \/ SL_Timeout
    \/ SL_SendFrame
    \/ ShardTake

SpecSend == InitAll /\ [][NextSend]_vars

(***************************************************************************)
(* Spec: one direction of traffic over a lossless in-order wire: callers   *)
(* of send_bytes, the send loop, the receive loop at the other end of the  *)
(* frame channel, and the consumer calling recv_bytes                      *)
(***************************************************************************)
Init == InitAll

Next ==
    \/ (n_submitted < MaxSubmit /\ SendBytes(n_submitted + 1))
    \/ SL_RecvFirst
    \/ SL_Gather
    \/ SL_Timeout
    \/ SL_SendFrame
    \/ RecvFromWire
    \/ DeliverItem
    \/ RecvBytes

Spec == Init /\ [][Next]_vars

(***************************************************************************)
(* SpecBatch: the scenario of 2 * 16 payloads.  The application submits    *)
(* them in bursts of 16, the latency timer may fire at any moment, each    *)
(* frame is taken by a backhaul before the session moves on, and the       *)
(* encoder adds at most BatchParity repair shards.                         *)
(***************************************************************************)
ScenarioPayloads == 2 * BatchMax

FewRepairShards == Len(encoded') - Len(to_send') <= BatchParity

NextBatch ==
    \/ (send_frame = <<>> /\ n_submitted < ScenarioPayloads /\ SendBurst(BatchMax))
    \/ (send_frame = <<>> /\ SL_RecvFirst)
    \/ (send_frame = <<>> /\ SL_Gather /\ FewRepairShards)
    \/ (send_frame = <<>> /\ SL_Timeout /\ FewRepairShards)
    \/ (send_frame = <<>> /\ SL_SendFrame)
    \/ ShardTake

SpecBatch == InitAll /\ [][NextBatch]_vars

(***************************************************************************)
(* SpecQueue: send_bytes against a slow send loop: the callers submit up   *)
(* to MaxOverflow payloads more than the out-bound channel holds while the *)
(* send loop takes at most MaxTaken payloads.                              *)
(***************************************************************************)
NextQueue ==
    \/ (n_submitted < SendQueueCap + MaxTaken + MaxOverflow /\ SendBytes(n_submitted + 1))
    \/ (n_batched + Len(to_send) < MaxTaken /\ SL_RecvFirst)
    \/ (n_batched + Len(to_send) < MaxTaken /\ SL_Gather)
    \/ SL_Timeout
    \/ SL_SendFrame
    \/ ShardTake

SpecQueue == InitAll /\ [][NextQueue]_vars

(***************************************************************************)
(* The frames of a sequence of runs as the send loop enqueues them: run r  *)
(* has shape[r].data payloads and shape[r].parity repair shards, payloads  *)
(* and frames are numbered consecutively.                                  *)
(***************************************************************************)
ShapeOf(r) == [data |-> 2 - (r % 2), parity |-> 1 - ((r \div 2) % 2)]

RECURSIVE PayloadsBefore(_, _)
PayloadsBefore(shape, r) ==
    IF r = 0 THEN 0 ELSE PayloadsBefore(shape, r - 1) + shape[r - 1].data

RECURSIVE FramesBefore(_, _)
FramesBefore(shape, r) ==
    IF r = 0 THEN 0
    ELSE FramesBefore(shape, r - 1) + shape[r - 1].data + shape[r - 1].parity

RunPayloads(shape, r) ==
    [i \in 1 .. shape[r].data |-> PayloadsBefore(shape, r) + i]

RunFrame(shape, r, idx) ==
    [frame_no |-> FramesBefore(shape, r) + idx,
     run_no |-> r,
     run_idx |-> idx,
     data_shards |-> shape[r].data,
     parity_shards |-> shape[r].parity,
     high_recv_frame_no |-> 0,
     total_recv_frames |-> 0,
     body |-> FECEncode(RunPayloads(shape, r), shape[r].parity)[idx + 1]]

(***************************************************************************)
(* SpecRD: a RunDecoder::default() and calls of input with the shards of   *)
(* some runs, each shard once, in any order.  The runs are 0..MaxRun and   *)
(* as many runs just beyond the window of the first.                       *)
(***************************************************************************)
RDShape == [r \in 0 .. RDWindow + 1 + MaxRun |-> ShapeOf(r)]
RDRuns == (0 .. MaxRun) \cup (RDWindow + 1 .. RDWindow + 1 + MaxRun)
RDShards == {<<r, idx>> : r \in RDRuns, idx \in 0 .. 2} \cap
            {sh \in (0 .. RDWindow + 1 + MaxRun) \X (0 .. 2) :
                sh[2] < ShapeOf(sh[1]).data + ShapeOf(sh[1]).parity}

\* the frame of each shard, as the send loop builds it
RDFrames == [sh \in RDShards |-> RunFrame(RDShape, sh[1], sh[2])]

RDInput(r, idx) ==
    /\ <<r, idx>> \notin rd_fed
    /\ LET f == RDFrames[<<r, idx>>]
           res == RunDecoderInput(decoder, f.run_no, f.run_idx, f.data_shards,
                                  f.parity_shards, f.body)
       IN  /\ decoder' = res.rd
           /\ rd_out' = MapPut(rd_out, r,
                               (IF r \in DOMAIN rd_out THEN rd_out[r] ELSE <<>>) \o res.out)
    /\ rd_fed' = rd_fed \cup {<<r, idx>>}
    /\ rd_maxfed' = IF r > rd_maxfed THEN r ELSE rd_maxfed
    /\ rd_late' = IF r + RDWindow < rd_maxfed THEN rd_late \cup {r} ELSE rd_late
    /\ UNCHANGED <<extVars, rfVars, chanVars, atomVars, slVars, sendHist, seqnos, loss_calc,
                   rl_pc, rl_output, now, delivered, netVars>>

NextRD == \E sh \in RDShards : RDInput(sh[1], sh[2])

SpecRD == InitAll /\ [][NextRD]_vars

(***************************************************************************)
(* SpecRecv: the receive loop behind a network that loses frames (at most  *)
(* parity_shards of each run), holds up to MaxHeld frames back to deliver  *)
(* them at any later moment, and otherwise delivers in the order sent.     *)
(* The frames sent are those of the runs 0 .. RDWindow + 1; the decoded    *)
(* payloads collect in the in-bound channel.                               *)
(***************************************************************************)
WireShape(r) == IF r < 2 THEN ShapeOf(r) ELSE [data |-> 1, parity |-> 0]
WireRuns == 0 .. RDWindow + 1
WireShapes == [r \in WireRuns |-> WireShape(r)]

RECURSIVE FramesUpTo(_)
FramesUpTo(r) ==
    IF r < 0 THEN <<>>
    ELSE FramesUpTo(r - 1) \o
         [i \in 1 .. WireShape(r).data + WireShape(r).parity |-> RunFrame(WireShapes, r, i - 1)]

WireFrames == FramesUpTo(RDWindow + 1)

LostOfRun(r) == Cardinality({i \in net_lost : WireFrames[i].run_no = r})

NetDeliver ==
    /\ net_next <= Len(WireFrames)
    /\ RecvFrame(WireFrames[net_next])
    /\ net_next' = net_next + 1
    /\ UNCHANGED <<send_frame, net_held, net_late, net_lost>>

NetHold ==
    /\ net_next <= Len(WireFrames)
    /\ Cardinality(net_held \cup net_late) < MaxHeld
    /\ net_held' = net_held \cup {net_next}
    /\ net_next' = net_next + 1
    /\ UNCHANGED <<extVars, rfVars, chanVars, atomVars, slVars, sendHist, rlVars, now,
                   delivered, net_late, net_lost, rdHist>>

NetRelease(i) ==
    /\ i \in net_held
    /\ RecvFrame(WireFrames[i])
    /\ net_held' = net_held \ {i}
    /\ net_late' = net_late \cup {i}
    /\ UNCHANGED <<send_frame, net_next, net_lost>>

NetLose ==
    /\ net_next <= Len(WireFrames)
    /\ LostOfRun(WireFrames[net_next].run_no) < WireFrames[net_next].parity_shards
    /\ net_lost' = net_lost \cup {net_next}
    /\ net_next' = net_next + 1
    /\ UNCHANGED <<extVars, rfVars, chanVars, atomVars, slVars, sendHist, rlVars, now,
                   delivered, net_held, net_late, rdHist>>

NextRecv ==
    \/ NetDeliver
    \/ NetHold
    \/ \E i \in 1 .. Len(WireFrames) : NetRelease(i)
    \/ NetLose
    \/ DeliverItem

SpecRecv == InitAll /\ [][NextRecv]_vars

(***************************************************************************)
(* SpecAcct: the receive loop is handed DataFrames with any frame numbers, *)
(* repeated and out of order, through cfg.recv_frame.  Each frame is a run *)
(* of its own with one data shard; the runs of the second band of frame    *)
(* numbers follow those of the first.                                      *)
(***************************************************************************)
LoneRun(seqno) == IF seqno > RFWindow THEN seqno - RFWindow + MaxSeq ELSE seqno

LoneFrame(seqno) ==
    [frame_no |-> seqno,
     run_no |-> LoneRun(seqno),
     run_idx |-> 0,
     data_shards |-> 1,
     parity_shards |-> 0,
     high_recv_frame_no |-> 0,
     total_recv_frames |-> 0,
     body |-> FECEncode(<<seqno>>, 0)[1]]

\* the backhaul puts a frame into cfg.recv_frame; net_next counts them
NetInject(seqno) ==
    /\ net_next <= MaxAdds
    /\ send_frame = <<>>
    /\ send_frame' = <<LoneFrame(seqno)>>
    /\ net_next' = net_next + 1
    /\ UNCHANGED <<extVars, rfVars, send_tosend, recv_input, atomVars, slVars, sendHist,
                   rlVars, now, delivered, net_held, net_late, net_lost, rdHist>>

NextAcct ==
    \/ \E seqno \in SeqNos : NetInject(seqno)
    \/ RecvFromWire
    \/ DeliverItem

SpecAcct == InitAll /\ [][NextAcct]_vars

(***************************************************************************)
(* SpecRF                                                                  *)
(***************************************************************************)
NextRF == \E seqno \in SeqNos : RFAdd(seqno)

SpecRF == InitAll /\ [][NextRF]_vars

NextLoss ==
    \/ LossTick
    \/ \E d \in LossDeltas : LossUpdate(d[1], d[2])

SpecLoss == InitAll /\ [][NextLoss]_vars

NextMedian == \E dtop \in {101, 202} : LossUpdateLater(dtop, 101)

SpecMedian == InitAll /\ [][NextMedian]_vars

NextU8 == \E n \in 0 .. LossGrid : LossToU8Call(n)

SpecU8 == InitAll /\ [][NextU8]_vars

NextHandshake ==
    \/ HS_SendHello
    \/ \E kind \in IoErrorKinds : HS_SendFails(kind)
    \/ HS_Timeout
    \/ \E kind \in IoErrorKinds : HS_RecvFails(kind)
    \/ \E d \in HsDatagrams : HS_Recv(d)

SpecHandshake == InitAll /\ [][NextHandshake]_vars

NextBackhaul ==
    \/ BH_Tick
    \/ BH_Enqueue
    \/ BH_Drain
    \/ \E s \in ShardIds : BH_Incoming(s)
    \/ \E s \in ShardIds : BH_Anomalous(s)
    \/ \E s \in ShardIds : BH_RecvFails(s)
    \/ \E s \in ShardIds : BH_Deliver(s)
    \/ \E s \in ShardIds : BH_Take(s)
    \/ \E s \in ShardIds : BH_Bind(s)
    \/ \E s \in ShardIds : BH_LaddrFails(s)
    \/ \E s \in ShardIds : BH_Send(s)
    \/ \E o \in bh_old : BH_OldRecv(o)
    \/ \E o \in bh_old : BH_CleanupEnds(o)

\* every task that can take a step eventually takes one, the clock moves on
\* and the session's receive loop takes the frames queued for it
FairBackhaul ==
    /\ WF_vars(BH_Tick)
    /\ WF_vars(BH_Drain)
    /\ \A s \in ShardIds :
          /\ WF_vars(BH_Deliver(s))
          /\ WF_vars(BH_Take(s))
          /\ WF_vars(BH_Bind(s))
          /\ WF_vars(BH_Send(s))
    /\ WF_vars(\E o \in bh_old : BH_CleanupEnds(o))

SpecBackhaul == InitAll /\ [][NextBackhaul]_vars /\ FairBackhaul

\* the upstream side of the backhaul tasks with binds that fail: the frames
\* enqueued, the rebinds with their retries, the sends and the cleanup tasks'
\* Timers
NextRebind ==
    \/ BH_Tick
    \/ BH_Enqueue
    \/ \E s \in ShardIds : BH_Take(s)
    \/ \E s \in ShardIds : BH_Bind(s)
    \/ \E s \in ShardIds : BH_BindFails(s)
    \/ \E s \in ShardIds : BH_Retry(s)
    \/ \E s \in ShardIds : BH_LaddrFails(s)
    \/ \E s \in ShardIds : BH_Send(s)
    \/ \E o \in bh_old : BH_CleanupEnds(o)

\* every shard that can take a step eventually takes one and the clock moves
\* on; a bind is not bound to succeed
FairRebind ==
    /\ WF_vars(BH_Tick)
    /\ \A s \in ShardIds :
          /\ WF_vars(BH_Take(s))
          /\ WF_vars(BH_Bind(s) \/ BH_BindFails(s) \/ BH_LaddrFails(s))
          /\ WF_vars(BH_Retry(s))
          /\ WF_vars(BH_Send(s))
    /\ WF_vars(\E o \in bh_old : BH_CleanupEnds(o))

SpecRebind == InitAll /\ [][NextRebind]_vars /\ FairRebind

NextDrop ==
    \/ DH_InitSession
    \/ \E kind \in HookKinds \ {"backhaul"} : DH_OnDrop(kind)
    \/ DH_DropSession

SpecDrop == InitAll /\ [][NextDrop]_vars

NextMux ==
    \/ MX_SendUrel
    \/ MX_RecvUrel
    \/ MX_AcceptConn
    \/ MX_OpenConnRequest
    \/ \E i \in 1 .. MaxOpens : MX_OpenConnReturn(i)
    \/ MX_ActorTakesUrel
    \/ MX_ActorGivesUrel
    \/ MX_ActorGivesConn
    \/ \E i \in 1 .. MaxOpens : \E answer \in {"replied", "dropped"} : MX_ActorAnswers(i, answer)
    \/ MX_ActorEnds

SpecMux == InitAll /\ [][NextMux]_vars

KaSteps(lists) ==
    \/ \E exit_host \in Hostnames : \E use_bridges \in BOOLEAN : KA_New(exit_host, use_bridges)
    \/ KA_GetExitsFails
    \/ KA_NoExits
    \/ \E exits \in lists : KA_SelectExit(exits)
    \/ KA_ConnTick
    \/ KA_DirectHandshake
    \/ KA_ResolveFails
    \/ KA_BridgeHandshake
    \/ \E msg \in BridgeErrors : KA_BridgesFail(msg)
    \/ KA_Connected
    \/ KA_ConnectTimeout
    \/ \E msg \in AuthErrors : KA_AuthFails(msg)
    \/ KA_Authenticated
    \/ \E msg \in MainLoopErrors : KA_MainLoopEnds(msg)
    \/ KA_SleepTick
    \/ KA_Restart

\* the supervisor over bodies that get at most one exit
SingleExitLists == ExitListsUpTo(1)

NextKeepalive == KaSteps(SingleExitLists)

FairKeepalive == WF_vars(KA_SleepTick) /\ WF_vars(KA_Restart)

SpecKeepalive == InitAll /\ [][NextKeepalive]_vars /\ FairKeepalive

\* the body over every exit list of up to MaxExits exits
AllExitLists == ExitListsUpTo(MaxExits)

NextExit == KaSteps(AllExitLists)

SpecExit == InitAll /\ [][NextExit]_vars

\* one body after the other of an actor with one exit, with the bridges and
\* the handshakes of the connection attempt
ConnectExitHost == <<"a", "b">>

\* the selector takes a result from the channel before the timers advance
NextConnect ==
    \/ \E use_bridges \in BOOLEAN : KA_New(ConnectExitHost, use_bridges)
    \/ KA_SelectExit(MakeExits(<<ConnectExitHost>>))
    \/ ((cn_stage = "racing" => cn_chan = <<>>) /\ KA_ConnTick)
    \/ CN_Begin
    \/ CN_ResolveFails
    \/ CN_Resolved
    \/ CN_DirectFails
    \/ CN_DirectOk
    \/ CN_BridgeStart
    \/ CN_GetBridgesFails
    \/ CN_NoBridges
    \/ \E n \in 1 .. MaxBridges : CN_SpawnBridges(n)
    \/ \E b \in 1 .. MaxBridges : \E ok \in BOOLEAN : CN_HandshakeEnds(b, ok)
    \/ CN_SelectSkip
    \/ CN_SelectOk
    \/ CN_Deadline
    \/ KA_AuthFails("authentication timed out")
    \/ KA_Authenticated
    \/ KA_MainLoopEnds("watchdog timed out")
    \/ KA_SleepTick
    \/ KA_Restart

\* the timers of the supervisor and of the deadline fire, and the selector,
\* which waits on the channel, runs when a result is there
FairConnect ==
    /\ FairKeepalive
    /\ WF_vars(CN_SelectSkip) /\ WF_vars(CN_SelectOk)
    /\ WF_vars(CN_Deadline)

SpecConnect == InitAll /\ [][NextConnect]_vars /\ FairConnect

\* one body after the other of an actor with one exit and a direct
\* connection, with authentication, the main loop and the connect calls
NextMain ==
    \/ KA_New(ConnectExitHost, FALSE)
    \/ KA_SelectExit(MakeExits(<<ConnectExitHost>>))
    \/ KA_DirectHandshake
    \/ KA_Connected
    \/ ML_Connect
    \/ ML_Begin
    \/ ML_TokenFails
    \/ ML_GotToken
    \/ ML_MuxDies
    \/ ML_AuthFails
    \/ ML_AuthTimeout
    \/ \E reply \in {0, 1} : ML_Authenticated(reply)
    \/ ML_Tick
    \/ ML_Probe
    \/ ML_ProbeOk
    \/ ML_ProbeErr
    \/ ML_ProbeTimeout
    \/ ML_Dispatch
    \/ \E i \in 1 .. MaxReqs : ML_OpenOk(i)
    \/ \E i \in 1 .. MaxReqs : ML_OpenErr(i)
    \/ \E i \in 1 .. MaxReqs : ML_OpenTimeout(i)
    \/ ML_Stop
    \/ ML_StatsFails
    \/ KA_SleepTick
    \/ KA_Restart

\* the timers fire and time passes; the stop receiver, which waits on the
\* channel, runs when a message is there; an open_conn that can only
\* return an error returns it
FairMain ==
    /\ FairKeepalive
    /\ WF_vars(ML_Tick)
    /\ WF_vars(ML_AuthTimeout)
    /\ WF_vars(ML_Probe)
    /\ WF_vars(ML_ProbeTimeout)
    /\ WF_vars(ML_ProbeErr)
    /\ \A i \in 1 .. MaxReqs : WF_vars(ML_OpenTimeout(i)) /\ WF_vars(ML_OpenErr(i))
    /\ WF_vars(ML_Stop)

SpecMain == InitAll /\ [][NextMain]_vars /\ FairMain

\* SpecMain with a dispatcher that takes a request whenever one is queued
\* (lines 207-210: the loop awaits recv_socks5_conn.recv())
SpecDispatch == InitAll /\ [][NextMain]_vars /\ FairMain /\ WF_vars(ML_Dispatch)

NextStats ==
    \/ ST_Frame
    \/ ST_PushSeqno
    \/ \E n \in 0 .. MaxOut : ST_Input(n)
    \/ ST_Deliver
    \/ ST_RecvBytes
    \/ \E c \in StatCalls : ST_GetStats(c)
    \/ \E c \in StatCalls : ST_DropCall(c)
    \/ ST_TakeReq
    \/ ST_ReadDecoder
    \/ ST_Snapshot
    \/ ST_Reply

\* the task of session_recv_loop polls both loops: each takes the step it
\* can take; nothing makes the consumer call recv_bytes
FairStats ==
    /\ WF_vars(ST_PushSeqno)
    /\ WF_vars(\E n \in 0 .. MaxOut : ST_Input(n))
    /\ WF_vars(ST_Deliver)
    /\ WF_vars(ST_TakeReq)
    /\ WF_vars(ST_ReadDecoder)
    /\ WF_vars(ST_Snapshot)
    /\ WF_vars(ST_Reply)

SpecStats == InitAll /\ [][NextStats]_vars /\ FairStats

\* a body that connects, authenticates and serves the calls of get_stats
NextKaStats ==
    \/ KA_New(ConnectExitHost, FALSE)
    \/ KA_SelectExit(MakeExits(<<ConnectExitHost>>))
    \/ KA_DirectHandshake
    \/ KA_Connected
    \/ ML_Begin
    \/ ML_GotToken
    \/ \E reply \in {0, 1} : ML_Authenticated(reply)
    \/ \E c \in StatCalls : KS_GetStats(c)
    \/ \E c \in StatCalls : KS_DropCall(c)
    \/ KS_Take
    \/ KS_SessionStats
    \/ KS_Reply
    \/ KS_ReplyFails
    \/ KA_SleepTick
    \/ KA_Restart

SpecKaStats == InitAll /\ [][NextKaStats]_vars

(***************************************************************************)
(* Claims                                                                  *)
(***************************************************************************)

\* C1: over any sequence of add calls on one ReplayFilter, add(s) returns
\* true at most once for every s; in particular after 0, 1, 2 were admitted
\* a second 2 is rejected.
C1_AddTrueAtMostOnce ==
    \A i, j \in 1 .. Len(rf_log) :
        (i < j /\ rf_log[i].seqno = rf_log[j].seqno /\ rf_log[i].ret)
            => ~rf_log[j].ret

\* C2: after any sequence of add calls, top - bottom <= 10000, bottom <= top
\* and every element of the seen set lies in [bottom, top].
C2_WindowInvariant ==
    /\ rp_filter.top_seqno - rp_filter.bottom_seqno <= RFWindow
    /\ rp_filter.bottom_seqno <= rp_filter.top_seqno
    /\ \A s \in rp_filter.seen_seqno :
          rp_filter.bottom_seqno <= s /\ s <= rp_filter.top_seqno

\* C2 witness: the window has slid (bottom was advanced by the loop), and a
\* later add of a lower seqno inside the window has been accepted.
C2_WindowSlid ==
    /\ Len(rf_log) >= 3
    /\ rp_filter.bottom_seqno > 0
    /\ rf_log[Len(rf_log)].ret
    /\ rf_log[Len(rf_log)].seqno < rf_log[Len(rf_log) - 1].seqno
    /\ rp_filter.top_seqno - rp_filter.bottom_seqno < RFWindow

\* the step enqueues a DataFrame to cfg.send_frame
Enqueues == Len(send_frame') = Len(send_frame) + 1
NewFrame == send_frame'[Len(send_frame')]

\* C5: the frame_no values of the DataFrames the send loop enqueues are
\* strictly increasing in enqueue order, across all runs.
C5_FrameNoIncreasing ==
    [][Enqueues => NewFrame.frame_no > last_frame.frame_no]_vars

\* C5 witness: frames of two runs have been enqueued.
C5_TwoRunsEnqueued ==
    /\ last_frame.run_no >= 1
    /\ last_frame.frame_no >= 2

\* C6: run_no increases by exactly one per batch; the frames of one batch
\* carry the same run_no and (data_shards, parity_shards), data_shards is the
\* number of payloads of the batch, run_idx is the position 0..n-1 of the
\* frame in the encoded output, and no two batches share a run_no.
C6_FrameOfBatch ==
    Enqueues =>
        /\ NewFrame.data_shards = Len(to_send)
        /\ NewFrame.data_shards + NewFrame.parity_shards = Len(encoded)
        /\ NewFrame.run_idx < Len(encoded)
        /\ NewFrame.body = encoded[NewFrame.run_idx + 1]
        /\ IF NewFrame.run_idx = 0
           THEN \* first frame of a batch: the run after the previous frame's,
                \* which was the last frame of its batch
                /\ NewFrame.run_no = last_frame.run_no + 1
                /\ last_frame # NoFrame =>
                      last_frame.run_idx + 1
                          = last_frame.data_shards + last_frame.parity_shards
           ELSE \* same batch as the previous frame
                /\ NewFrame.run_no = last_frame.run_no
                /\ NewFrame.run_idx = last_frame.run_idx + 1
                /\ NewFrame.data_shards = last_frame.data_shards
                /\ NewFrame.parity_shards = last_frame.parity_shards
C6_RunNoPerBatch ==
    /\ run_no' \in {run_no, run_no + 1}
    /\ (run_no' = run_no + 1) <=> (n_batched' > n_batched)
C6_RunAccounting == [][C6_FrameOfBatch /\ C6_RunNoPerBatch]_vars

\* C6 witness: a second batch, of two payloads and with a repair shard, has
\* been enqueued completely.
C6_SecondRunDone ==
    /\ run_no = 2
    /\ last_frame.run_no = 1
    /\ last_frame.data_shards = 2
    /\ last_frame.parity_shards = 1
    /\ last_frame.run_idx = 2

\* payloads are numbered in submission order: the batch in hand is the block
\* of payloads right after those of the completed runs
BatchContiguous ==
    to_send = [i \in 1 .. Len(to_send) |-> n_batched + i]

BatchRule ==
    /\ Len(to_send) <= BatchMax
    /\ sl_pc = "gather" => (1 <= Len(to_send) /\ Len(to_send) < BatchMax)
    /\ sl_pc = "send" => 1 <= Len(to_send)
    /\ sl_pc = "first" => to_send = <<>>
    /\ n_dropped = 0 => BatchContiguous
    /\ run_no <= n_batched /\ n_batched <= BatchMax * run_no
    /\ last_frame # NoFrame =>
          (1 <= last_frame.data_shards /\ last_frame.data_shards <= BatchMax)

\* C7 as stated: the batching rule, and 32 payloads always make exactly two
\* runs of 16.
C7_Original ==
    /\ BatchRule
    /\ (n_batched = ScenarioPayloads) =>
          (run_no = 2 /\ last_frame.run_no = 1 /\ last_frame.data_shards = BatchMax)

\* C7 (amended): every run holds between 1 and 16 payloads, taken in
\* submission order, each payload in exactly one run; as long as no latency
\* timer has fired, every completed run holds exactly 16 payloads, so 32
\* payloads make exactly the runs 0 and 1 of 16 data shards each.
C7_Batching ==
    /\ BatchRule
    /\ ~timer_fired =>
          /\ n_batched = BatchMax * run_no
          /\ last_frame # NoFrame => last_frame.data_shards = BatchMax
    /\ (~timer_fired /\ n_batched = ScenarioPayloads) =>
          (run_no = 2 /\ last_frame.run_no = 1 /\ last_frame.data_shards = BatchMax)

\* C7 witness: all 32 payloads have left in two runs of 16.
C7_TwoFullRuns ==
    /\ ~timer_fired
    /\ n_batched = ScenarioPayloads
    /\ run_no = 2
    /\ sl_pc = "first"

\* C8: send_bytes never blocks; with 500 payloads queued the payload is
\* dropped and the queue is unchanged, otherwise the payload is appended; the
\* queue never holds more than 500 payloads.
C8_SendBytesStep ==
    (n_submitted' = n_submitted + 1) =>
        IF Len(send_tosend) >= SendQueueCap
        THEN send_tosend' = send_tosend /\ n_dropped' = n_dropped + 1
        ELSE send_tosend' = Append(send_tosend, n_submitted + 1)
             /\ n_dropped' = n_dropped
C8_OverflowPolicy ==
    /\ [](Len(send_tosend) <= SendQueueCap)
    /\ [](ENABLED SendBytes(n_submitted + 1))
    /\ [][C8_SendBytesStep]_vars

\* C8 witness: a payload was dropped at a full queue, the send loop then took
\* one and a later payload was appended.
C8_DroppedThenAppended ==
    /\ n_dropped >= 1
    /\ Len(send_tosend) = SendQueueCap
    /\ send_tosend[SendQueueCap] > SendQueueCap + n_dropped

IsPrefix(a, b) == Len(a) <= Len(b) /\ \A i \in 1 .. Len(a) : a[i] = b[i]
Range(q) == {q[i] : i \in 1 .. Len(q)}
Submitted == [i \in 1 .. n_submitted |-> i]

\* nothing is in flight between send_bytes and recv_bytes
SessionQuiet ==
    /\ send_tosend = <<>> /\ sl_pc = "first" /\ send_frame = <<>>
    /\ rl_pc = "recv" /\ recv_input = <<>>

\* C3: over a lossless in-order wire and without overflow of the sender's
\* queue, the payloads recv_bytes returns are the payloads given to
\* send_bytes, in the same order, none lost, duplicated or reordered.
C3_RoundTrip ==
    n_dropped = 0 =>
        /\ IsPrefix(delivered \o recv_input \o rl_output, Submitted)
        /\ SessionQuiet => delivered = Submitted

\* C3 witness: payloads sent in at least two runs, one of them of two
\* payloads, have all come out of recv_bytes.
C3_AllDelivered ==
    /\ SessionQuiet
    /\ n_submitted = MaxSubmit
    /\ delivered = Submitted
    /\ run_no >= 2
    /\ last_frame.data_shards >= 2

\* ---- SpecRecv
ArrivedOfRun(r) ==
    {i \in 1 .. Len(WireFrames) :
        /\ WireFrames[i].run_no = r
        /\ \E j \in 1 .. Len(seqnos) : seqnos[j][2] = WireFrames[i].frame_no}
RunOfSeqno(e) ==
    WireFrames[CHOOSE i \in 1 .. Len(WireFrames) : WireFrames[i].frame_no = e[2]].run_no
AllPayloads == UNION {Range(RunPayloads(WireShapes, r)) : r \in WireRuns}

\* every frame was either lost or has gone through the receive loop
NetQuiet ==
    /\ net_next = Len(WireFrames) + 1 /\ net_held = {}
    /\ rl_pc = "recv"
LossWithinParity == \A r \in WireRuns : LostOfRun(r) <= WireShape(r).parity

\* no frame arrived after a frame of a run more than 10 runs later
InWindowOrder ==
    \A i, j \in 1 .. Len(seqnos) :
        i < j => RunOfSeqno(seqnos[j]) + RDWindow >= RunOfSeqno(seqnos[i])

\* C4 as stated: when every run lost at most parity_shards frames and the
\* others arrived, in any order, every payload of every run is in the
\* in-bound channel.
C4_Original ==
    (NetQuiet /\ LossWithinParity) => AllPayloads \subseteq Range(recv_input)

\* C4 (amended): when every run lost at most parity_shards frames and the
\* others arrived, none of them after a frame of a run more than 10 runs
\* later, every payload of every run is in the in-bound channel.
C4_LossTolerance ==
    (NetQuiet /\ LossWithinParity /\ InWindowOrder)
        => AllPayloads \subseteq Range(recv_input)

\* C4 witness: frames were lost, a frame was delivered late but inside the
\* window, and everything has been decoded.
C4_LossyReorderedDecoded ==
    /\ NetQuiet /\ LossWithinParity /\ InWindowOrder
    /\ Cardinality(net_lost) >= 2
    /\ net_late # {}
    /\ \E j \in 1 .. Len(seqnos) - 1 : seqnos[j][2] > seqnos[j + 1][2]
    /\ AllPayloads \subseteq Range(recv_input)

\* ---- SpecRD
Systematic(r) == {<<r, idx>> : idx \in 0 .. ShapeOf(r).data - 1}

\* C9: once all systematic shards of a run have been fed to input, in any
\* order and interleaved with shards of other runs, none of its shards more
\* than 10 runs late, the decoder has emitted exactly the payloads of the run
\* in run_idx order.
C9_SystematicDecoded ==
    \A r \in RDRuns :
        /\ (Systematic(r) \subseteq rd_fed /\ r \notin rd_late)
              => (r \in DOMAIN rd_out /\ rd_out[r] = RunPayloads(RDShape, r))
        /\ r \in DOMAIN rd_out => rd_out[r] \in {<<>>, RunPayloads(RDShape, r)}

\* C9 witness: the two systematic shards of run 0 were fed in reverse order
\* with a shard of run 1 in between, and run 0 was emitted.
C9_ReverseOrderDecoded ==
    /\ rd_fed = {<<0, 1>>, <<1, 0>>, <<0, 0>>}
    /\ decoder.decoders[0].done
    /\ ~decoder.decoders[0].shards[0].parity
    /\ rd_out[0] = RunPayloads(RDShape, 0)

\* C10: after any sequence of input calls, bottom_run <= top_run,
\* top_run - bottom_run <= 10, every run_no with a live sub-decoder lies in
\* [bottom_run, top_run], and at most 11 sub-decoders exist.
C10_RunWindow ==
    /\ decoder.bottom_run <= decoder.top_run
    /\ decoder.top_run - decoder.bottom_run <= RDWindow
    /\ \A r \in DOMAIN decoder.decoders :
          decoder.bottom_run <= r /\ r <= decoder.top_run
    /\ Cardinality(DOMAIN decoder.decoders) <= RDWindow + 1

\* C10 witness: the window has advanced past runs that had sub-decoders, and
\* two runs are live.
C10_WindowAdvanced ==
    /\ decoder.bottom_run = 2
    /\ decoder.top_run = RDWindow + 2
    /\ {<<0, 0>>, <<1, 0>>} \subseteq rd_fed
    /\ DOMAIN decoder.decoders = {RDWindow + 1, RDWindow + 2}
    /\ decoder.total_count > 0

\* C11: update_params changes no field of the LossCalculator unless, relative
\* to the last admitted sample, total has advanced by at least 100, top by at
\* least 100, and at least 2000 ms have elapsed.
C11_Gating ==
    [][loss_calc' # loss_calc =>
          /\ lc_call'.dtotal >= 100
          /\ lc_call'.dtop >= 100
          /\ lc_call'.dt >= 2000]_vars

\* C11 witness: after an admitted sample, a call 2001 ms later with total 101
\* higher and top only 100 higher has left the calculator as it was.
C11_CallGatedOut ==
    /\ Len(lc_admitted) = 1
    /\ lc_call = [dtop |-> 100, dtotal |-> 101, dt |-> 2001]
    /\ loss_calc.last_time = 2001
    /\ now = 4002

FracEq(a, b) == a[1] * b[2] = b[1] * a[2]

LastN(q, n) == IF Len(q) <= n THEN q ELSE SubSeq(q, Len(q) - n + 1, Len(q))

\* m is the element at index k (from 0) of the ascending order of q
IsAtSortedIndex(m, q, k) ==
    /\ \E i \in 1 .. Len(q) : FracEq(q[i], m)
    /\ Cardinality({i \in 1 .. Len(q) : FracLess(q[i], m)}) <= k
    /\ Cardinality({i \in 1 .. Len(q) : ~FracLess(m, q[i])}) >= k + 1

\* C12: the sample set is the at most 64 most recently admitted samples, and
\* after every admitted sample the median reported is the element at index
\* len/4 of the sample set in ascending order.
C12_Quartile ==
    /\ loss_calc.loss_samples = LastN(lc_admitted, LossSamplesCap)
    /\ lc_admitted # <<>> =>
          IsAtSortedIndex(loss_calc.median, loss_calc.loss_samples,
                          Len(loss_calc.loss_samples) \div 4)

\* C12 witness: 17 samples without loss and then 48 samples of loss 1/2 were
\* admitted; the oldest was evicted and the median reported is 1/2.
C12_EvictionMovedMedian ==
    /\ Len(lc_admitted) = LossSamplesCap + 1
    /\ \A i \in 1 .. 17 : lc_admitted[i][1] = 0
    /\ lc_admitted[18][1] # 0
    /\ Len(loss_calc.loss_samples) = LossSamplesCap
    /\ FracEq(loss_calc.median, <<1, 2>>)

Min2(a, b) == IF a < b THEN a ELSE b

\* C13: for every loss in [0, 1], loss_to_u8(loss) = min(255, floor(loss * 256)).
C13_ByteWiseLoss ==
    lu_byte = Min2(255, (lu_loss[1] * 256) \div lu_loss[2])

\* the number (from 0) of the ClientHello last sent before entry i of hs_log
HelloBefore(i) == Cardinality({j \in 1 .. i : hs_log[j].ev = "hello"}) - 1

\* C14: the wait for a reply to the k-th ClientHello (k = 0, 1, 2, ...) has a
\* timeout of 2^k seconds; when it times out the client goes on to send the
\* ClientHello again and does not return; an I/O error that is not a timeout
\* is returned at once, with no ClientHello sent after it.
C14_Backoff ==
    /\ hs_pc = "wait" => hs_timer = 2 ^ HelloBefore(Len(hs_log))
    /\ \A i \in 1 .. Len(hs_log) :
          /\ hs_log[i].ev = "timeout" =>
                /\ hs_log[i].timer = 2 ^ HelloBefore(i)
                /\ IF i = Len(hs_log)
                   THEN hs_pc = "send" /\ hs_result = HsNoResult
                   ELSE hs_log[i + 1].ev \in {"hello", "send_error"}
          /\ (hs_log[i].ev \in {"recv_error", "send_error"}
                /\ hs_log[i].kind # "TimedOut") =>
                /\ i = Len(hs_log)
                /\ hs_pc = "done"
                /\ ~hs_result.ok /\ hs_result.kind = hs_log[i].kind

\* C14 witness: three waits of 1 s, 2 s and 4 s timed out, a fourth
\* ClientHello was sent, and recv_from then failed with another error.
C14_ThreeTimeoutsThenError ==
    /\ Len(hs_log) = 8
    /\ \A i \in {2, 4, 6} : hs_log[i].ev = "timeout"
    /\ hs_log[6].timer = 4
    /\ hs_log[7].ev = "hello"
    /\ hs_log[8].ev = "recv_error"
    /\ hs_result = HsErr("Other", "recv_from")

\* C15: connect_custom returns a Session, and init_session creates the
\* session and the backhaul shards, only on a decrypted ServerHello whose
\* long_pk is the expected public key; a decrypted ServerHello with another
\* long_pk ends the handshake with ConnectionRefused "bad pubkey" and neither
\* a session nor a backhaul shard.
C15_ServerAuthenticated ==
    /\ (hs_result.ok \/ hs_session \/ hs_tasks > 0) =>
          /\ hs_log # <<>>
          /\ hs_log[Len(hs_log)].ev = "server_hello"
          /\ hs_log[Len(hs_log)].long_pk = ExpectedPk
    /\ \A i \in 1 .. Len(hs_log) :
          (hs_log[i].ev = "server_hello" /\ hs_log[i].long_pk # ExpectedPk) =>
              /\ i = Len(hs_log)
              /\ hs_pc = "done"
              /\ hs_result = HsErr("ConnectionRefused", "bad pubkey")
              /\ hs_tasks = 0
              /\ ~hs_session

\* C15 witness: after a timeout and an unusable datagram, a ServerHello with
\* another long_pk was refused.
C15_BadPubkeyRefused ==
    /\ Len(hs_log) = 6
    /\ hs_log[2].ev = "timeout"
    /\ hs_log[4].ev = "unusable"
    /\ hs_log[6].ev = "server_hello"
    /\ hs_log[6].long_pk # ExpectedPk
    /\ hs_result.kind = "ConnectionRefused"

\* shard s has sent an upstream frame on a socket bound after its first n
SentOnNewSocket(s, n) == bh_socket[s] >= n /\ bh_up[s].sock = bh_socket[s]

\* C16 as stated: for each backhaul shard, once 5 s have passed since its
\* last rebind and at least one upstream frame is queued, the shard
\* eventually sends on a socket bound to a new local address (unless its
\* task has ended on an error).
C16_Original ==
    \A s \in ShardIds : \A n \in 0 .. Shards + MaxUp :
        (/\ bh_pc[s] = "race"
         /\ bh_updated[s]
         /\ now - bh_last_resume[s] > ResetMillis
         /\ send_frame # <<>>
         /\ bh_next_sock = n)
            ~> (SentOnNewSocket(s, n) \/ bh_pc[s] = "exited")

\* C16: a backhaul shard sends an upstream frame that it took for the first
\* time or more than 5 s after its last rebind on a newly bound socket, and
\* any other upstream frame on the socket it had; datagrams arriving on a
\* previous socket are delivered to the in-bound channel at most 5 s after
\* the rebind.
C16_Rebind ==
    /\ \A s \in ShardIds :
          bh_up[s].sock # -1 =>
              IF bh_up[s].first \/ bh_up[s].gap > ResetMillis
              THEN bh_up[s].sock > bh_up[s].prev
              ELSE bh_up[s].sock = bh_up[s].prev
    /\ \A g \in bh_oldgaps : g <= CleanupSecs * 1000

\* C16 witness: shard 0 took a frame 7.5 s after its last rebind and sent it
\* on a socket bound then, and the socket it left delivered a datagram 5 s
\* after that rebind.
C16_ReboundAndOldDelivered ==
    /\ bh_up[0].gap = 7500
    /\ ~bh_up[0].first
    /\ bh_up[0].sock = bh_socket[0]
    /\ bh_up[0].sock > bh_up[0].prev
    /\ bh_oldgaps = {5000}

RECURSIVE Reverse(_)
Reverse(q) == IF q = <<>> THEN <<>> ELSE Append(Reverse(Tail(q)), Head(q))

\* C17: when the Session is torn down, every closure registered with on_drop
\* has been run exactly once, the closures were run in LIFO order of
\* registration, and the backhaul tasks no longer run.
C17_DropHooks ==
    dh_torn => /\ dh_ran = Reverse(dh_destroyed)
               /\ ~dh_tasks

\* C18: send_urel, recv_urel, accept_conn and the request leg of open_conn
\* return Ok or a ConnectionReset error, the error only when the channel is
\* closed; the reply leg of open_conn returns Ok or a TimedOut error; no call
\* returns another error kind.
C18_BoundaryErrors ==
    /\ mx_last.op \in {"send_urel", "recv_urel", "accept_conn", "open_conn request"} =>
          /\ mx_last.res \in {"Ok", "ConnectionReset"}
          /\ mx_last.res = "ConnectionReset" => mx_closed
    /\ mx_last.op = "open_conn reply" => mx_last.res \in {"Ok", "TimedOut"}
    /\ mx_last.op \in {"none", "send_urel", "recv_urel", "accept_conn",
                        "open_conn request", "open_conn reply"}

\* C18 witness: the actor ended while an open_conn request was queued;
\* recv_urel on the closed and empty channel returned ConnectionReset, and
\* the open_conn call is about to return TimedOut.
C18_ResetAfterDrain ==
    /\ mx_closed
    /\ mx_urel_recv = 0
    /\ mx_last = [op |-> "recv_urel", res |-> "ConnectionReset"]
    /\ mx_opens = <<"dropped">>

\* C19: whenever the keepalive body ends, it ends with an error and the
\* supervisor starts its 1 s timer; the supervisor leaves the timer only
\* after 1 s and only to start a new body, which has nothing of the old one
\* and goes through exit selection, connection and authentication in this
\* order; the supervisor never returns, and every body that ended is
\* followed by a new one.
KaBodyStates == {"body_start", "connecting", "authenticating", "main_loop"}

C19_Supervisor ==
    /\ [](ka_pc # "returned")
    /\ [][/\ (ka_pc \in KaBodyStates /\ ka_pc' \notin KaBodyStates)
                 => (ka_pc' = "sleeping" /\ ka_slept' = 0 /\ ka_err' # NoError)
          /\ (ka_pc = "sleeping") => (ka_pc' \in {"sleeping", "body_start"})
          /\ (ka_pc = "sleeping" /\ ka_pc' = "body_start")
                 => (/\ ka_slept >= RestartMillis
                     /\ ka_fetched' = <<>> /\ ka_exits' = <<>> /\ ka_targets' = {})
          /\ (ka_pc # "body_start" /\ ka_pc' = "body_start")
                 => (ka_pc \in {"unstarted", "sleeping"})
          /\ (ka_pc # "connecting" /\ ka_pc' = "connecting") => (ka_pc = "body_start")
          /\ (ka_pc # "authenticating" /\ ka_pc' = "authenticating")
                 => (ka_pc = "connecting" /\ ka_targets # {})
          /\ (ka_pc # "main_loop" /\ ka_pc' = "main_loop") => (ka_pc = "authenticating")
         ]_vars
    /\ ((ka_pc = "sleeping") ~> (ka_pc = "body_start"))

\* C19 witness: after a body failed, a later body has selected an exit,
\* connected and authenticated.
C19_RestartedBodyRuns ==
    /\ ka_pc = "main_loop"
    /\ ka_err # NoError
    /\ ka_slept >= RestartMillis

\* C20: every handshake of a body is with an exit of the list get_exits
\* returned whose hostname is at least as near to exit_host as every
\* hostname of the list (the direct one with the key of such an exit), the
\* descriptor published by the body is such an exit and the one the
\* handshakes were with, and a body that got no exits has started no
\* handshake.
KaNearest(hostname) ==
    /\ \E i \in 1 .. Len(ka_fetched) : ka_fetched[i].hostname = hostname
    /\ \A j \in 1 .. Len(ka_fetched) :
           Distance(hostname, ka_exit_host)
               <= Distance(ka_fetched[j].hostname, ka_exit_host)

C20_NearestExit ==
    /\ \A t \in ka_targets :
           /\ KaNearest(t.hostname)
           /\ t.via = "direct" =>
                  \E i \in 1 .. Len(ka_fetched) :
                      /\ ka_fetched[i].hostname = t.hostname
                      /\ ka_fetched[i].sosistab_key = t.sosistab_key
    /\ ka_pc = "main_loop" =>
           /\ \E i \in 1 .. Len(ka_fetched) : ka_fetched[i] = ka_descriptor
           /\ KaNearest(ka_descriptor.hostname)
           /\ \A t \in ka_targets : t.hostname = ka_descriptor.hostname
    /\ (ka_pc = "sleeping" /\ ka_err = "no exits found") => ka_targets = {}

\* C20 witness: the second of two exits is strictly nearer to exit_host
\* than the first, the body has connected to it and published it.
C20_SecondExitChosen ==
    /\ ka_pc = "main_loop"
    /\ Len(ka_fetched) = 2
    /\ Distance(ka_fetched[2].hostname, ka_exit_host)
           < Distance(ka_fetched[1].hostname, ka_exit_host)
    /\ ka_descriptor = ka_fetched[2]
    /\ ka_targets # {}

\* the bridge whose successful handshake is the first in the result channel
FirstOkBridge ==
    LET oks == {i \in 1 .. Len(cn_chan) : cn_chan[i].ok}
    IN  IF oks = {} THEN 0
        ELSE cn_chan[CHOOSE i \in oks : \A j \in oks : i <= j].bridge

\* with use_bridges there is no direct attempt and no direct session;
\* without it bridge_sess_async starts only when 5 s have passed, with no
\* session yet; the step in which the direct handshake fails leaves the
\* race running; a session through a bridge is one whose handshake
\* succeeded
DirectBridgeSafety ==
    /\ [](ka_use_bridges =>
              /\ cn_direct = "unused" /\ cn_via # 0
              /\ \A t \in ka_targets : t.via # "direct")
    /\ []((~ka_use_bridges /\ cn_bridge # "none") => cn_bridge_at >= FallbackMillis)
    /\ [](cn_via >= 1 => cn_hs[cn_via] = "ok")
    /\ [][/\ (cn_bridge = "none" /\ cn_bridge' # "none")
                 => (cn_via = -1 /\ cn_stage' = "racing")
          /\ (cn_direct # "failed" /\ cn_direct' = "failed")
                 => (cn_stage' = "racing" /\ ka_pc' = "connecting" /\ ka_err' = ka_err)
         ]_vars

\* C21 as stated: DirectBridgeSafety, and once a successful bridge
\* handshake is in the result channel before the 10 s are over, the race
\* ends only with the session formed through that bridge, or with the
\* direct session if the direct handshake succeeds first.
C21_Original ==
    /\ DirectBridgeSafety
    /\ [][(/\ cn_stage = "racing" /\ FirstOkBridge # 0
            /\ ka_elapsed < ConnectMillis
            /\ cn_stage' # "racing")
              => cn_via' \in {FirstOkBridge, 0}]_vars

\* C21: DirectBridgeSafety, and once a successful bridge handshake is in
\* the result channel before the 10 s are over, the session is formed
\* through that bridge, unless the direct handshake succeeds first or the
\* hostname of the exit fails to resolve first, which ends the body.
C21_DirectBridgeRace ==
    /\ DirectBridgeSafety
    /\ \A b \in 1 .. MaxBridges :
           (cn_stage = "racing" /\ FirstOkBridge = b /\ ka_elapsed < ConnectMillis)
               ~> \/ cn_via = b
                  \/ cn_via = 0
                  \/ /\ cn_stage = "done" /\ ka_pc = "sleeping"
                     /\ ka_err = "can't resolve hostname of exit"

\* C21 witness: without use_bridges the direct handshake has failed, the
\* bridges were started at 5 s and the session is the one of a bridge.
C21_BridgeAfterDirectFailed ==
    /\ ~ka_use_bridges
    /\ ka_pc = "authenticating"
    /\ cn_direct = "failed"
    /\ cn_bridge_at = FallbackMillis
    /\ cn_via >= 1

DeadlineMsg == "initial connection timeout after 10"

\* C22: a connection attempt that is still on when 10 s have passed ends;
\* the body fails with the error of the deadline only when 10 s have passed
\* and there is no session, and the supervisor then sleeps; when an attempt
\* has ended, no handshake of it is in progress any more; and after the
\* failure the supervisor starts the body again.
C22_Deadline ==
    /\ [](cn_stage = "done" =>
              /\ \A b \in 1 .. Len(cn_hs) : cn_hs[b] # "running"
              /\ cn_direct \notin {"resolving", "handshaking"})
    /\ [][(cn_stage = "racing" /\ ka_pc' = "sleeping" /\ ka_err' = DeadlineMsg)
              => (/\ ka_elapsed >= ConnectMillis
                  /\ cn_stage' = "done" /\ cn_via' = -1
                  /\ ka_slept' = 0)
         ]_vars
    /\ ((cn_stage = "racing" /\ ka_elapsed >= ConnectMillis) ~> (cn_stage = "done"))
    /\ ((cn_stage = "done" /\ ka_pc = "sleeping" /\ ka_err = DeadlineMsg)
            ~> (ka_pc = "body_start"))

\* C22 witness: the deadline has ended an attempt whose direct handshake
\* and one bridge handshake were in progress.
C22_DeadlineCancelled ==
    /\ cn_stage = "done"
    /\ ka_pc = "sleeping"
    /\ ka_err = DeadlineMsg
    /\ cn_direct = "cancelled"
    /\ \E b \in 1 .. Len(cn_hs) : cn_hs[b] = "cancelled"

\* every bridge handshake of the attempt has failed and the selector has
\* taken every result
BridgesExhausted ==
    /\ ka_pc = "connecting" /\ cn_stage = "racing"
    /\ cn_bridge = "selecting"
    /\ \A b \in 1 .. Len(cn_hs) : cn_hs[b] = "failed"
    /\ cn_chan = <<>>

\* C23: the session of the bridge path is the one of the first handshake to
\* succeed, failed attempts being skipped; and when every bridge handshake
\* has failed and the result channel is drained, the bridge path fails with
\* its own error ("ran out of bridges") rather than waiting further.
C23_BridgeSelection ==
    /\ [][(cn_via = -1 /\ cn_via' >= 1)
              => (cn_via' = FirstOkBridge /\ cn_hs[cn_via'] = "ok")]_vars
    /\ [][BridgesExhausted => ka_elapsed' = ka_elapsed]_vars
    /\ (BridgesExhausted
            ~> (cn_stage = "done" /\ ka_pc = "sleeping" /\ ka_err = "ran out of bridges"))

WatchdogGivesUp ==
    \/ ml_wd.pc = "probe" /\ OpenTimedOut(ml_wd.elapsed)
    \/ ml_wd.pc = "returned"

\* C25: the watchdog opens a probe only when its 200 s are over and does so
\* as long as the body runs; it sends its stop message only when the 15 s
\* of a probe are over; a probe whose 15 s are over ends, after which the
\* watchdog waits again or has sent its stop message, and after the stop
\* message the body ends and the supervisor starts a new one.
C25_Watchdog ==
    /\ [][/\ (ml_wd.pc = "timer" /\ ml_wd'.pc = "probe")
                 => ml_wd.elapsed >= WatchdogMillis
          /\ (ml_wd.pc # "returned" /\ ml_wd'.pc = "returned")
                 => (/\ ml_wd.pc = "probe" /\ ml_wd.elapsed >= OpenMillis
                     /\ ml_stop' = Append(ml_stop, "watchdog timed out"))
         ]_vars
    /\ [](ml_wd.pc = "timer" => ml_wd.elapsed <= WatchdogMillis)
    /\ [](ml_wd.pc = "probe" => ml_wd.elapsed <= OpenMillis)
    /\ ((ml_stage = "main" /\ ml_wd.pc = "timer")
            ~> (ml_wd.pc = "probe" \/ ml_stage = "done"))
    /\ ((ml_stage = "main" /\ WatchdogGivesUp)
            ~> (ml_wd.pc = "timer" \/ ka_pc = "body_start"))

\* C25 witness: after the watchdog timed out, a new body has connected and
\* authenticated and is in its main loop.
C25_RestartedAfterWatchdog ==
    /\ ka_pc = "main_loop"
    /\ ml_stage = "main"
    /\ ml_authed
    /\ ka_err = "watchdog timed out"

\* request i is in state st
ReqIs(i, st) ==
    IF i <= Len(ml_reqs) THEN ml_reqs[i].st = st ELSE FALSE

\* the open of request i is on and its 15 s are over
OpenOverdue(i) ==
    IF i <= Len(ml_reqs)
    THEN ml_reqs[i].st = "opening" /\ OpenTimedOut(ml_reqs[i].elapsed)
    ELSE FALSE

\* C26: a connect call receives no stream but the one opened for it, and
\* receives it when its open succeeds; a call whose open failed, timed out
\* or was dropped with the body gets an error; the task of a request gives
\* up only when its 15 s are over and then sends the stop message; when opens
\* are still on with their 15 s over, they end, and after a timeout the
\* body ends and the supervisor starts a new one.
C26_Dispatcher ==
    /\ [](\A i \in 1 .. Len(ml_reqs) :
              /\ ml_reqs[i].reply \in {0, -1, i}
              /\ ml_reqs[i].st = "delivered" => ml_reqs[i].reply = i
              /\ ml_reqs[i].st \in {"failed", "timedout", "cancelled"}
                     => ml_reqs[i].reply = -1
              /\ ml_reqs[i].st \in {"queued", "opening"} => ml_reqs[i].reply = 0
              /\ ml_reqs[i].elapsed <= OpenMillis)
    /\ [][\A i \in 1 .. Len(ml_reqs) :
              (ml_reqs[i].st # "timedout" /\ ml_reqs'[i].st = "timedout")
                  => (/\ ml_reqs[i].st = "opening"
                      /\ ml_reqs[i].elapsed >= OpenMillis
                      /\ ml_stop' = Append(ml_stop, "normal connection timed out"))
         ]_vars
    /\ (ml_stage = "main" /\ \E i \in 1 .. MaxReqs : OpenOverdue(i))
           ~> (\A i \in 1 .. MaxReqs : ~OpenOverdue(i))
    /\ (ml_stage = "main" /\ \E i \in ml_here : ReqIs(i, "timedout"))
           ~> (ka_pc = "body_start")

\* C26 witness: the open of the first request has timed out, which has
\* ended the body, and the second request has received its own stream.
C26_TimeoutEndsBody ==
    /\ Len(ml_reqs) = 2
    /\ ml_reqs[1].st = "timedout" /\ ml_reqs[1].reply = -1
    /\ ml_reqs[2].st = "delivered" /\ ml_reqs[2].reply = 2
    /\ ka_pc = "sleeping"
    /\ ka_err = "normal connection timed out"

\* C27: when an open_conn of the main loop, of a dispatched request or of
\* the watchdog, has returned an error because the actor of the Multiplex
\* has ended, the body ends.
C27_DeadSession ==
    (/\ ml_stage = "main" /\ ml_mux = "dead"
     /\ \E i \in ml_here : ml_reqs[i].st = "failed")
        ~> (ml_stage = "done")

\* C28: over any sequence of ReplayFilter::add calls neither top_seqno nor
\* bottom_seqno ever decreases.
C28_Monotone ==
    [][/\ rp_filter'.top_seqno >= rp_filter.top_seqno
       /\ rp_filter'.bottom_seqno >= rp_filter.bottom_seqno]_vars

\* the frame numbers of the recent-seqnos deque
SeqnosFrameNos == {seqnos[j][2] : j \in 1 .. Len(seqnos)}

\* the frames the receive loop has taken from cfg.recv_frame
FramesTaken == net_next - 1 - Len(send_frame)

\* a full recent-seqnos deque
FullSeqnos == [i \in 1 .. SeqnosCap |-> <<0, i>>]

\* pushing onto a full deque keeps its length, drops the oldest entry and
\* puts the new one last
FullSeqnosPush ==
    LET q == PushSeqno(FullSeqnos, <<1, 0>>)
    IN  /\ Len(q) = SeqnosCap
        /\ q[1] = FullSeqnos[2]
        /\ q[SeqnosCap - 1] = FullSeqnos[SeqnosCap]
        /\ q[SeqnosCap] = <<1, 0>>

\* C29: a frame the replay filter rejects changes none of the recent-seqnos
\* deque, the loss calculator, measured_loss, high_recv_frame_no,
\* total_recv_frames and the run decoder; a frame it admits appends one
\* entry to the deque, which holds at most 100000 entries and drops the
\* oldest, adds 1 to total_recv_frames and raises high_recv_frame_no to the
\* highest frame_no admitted, so that total_recv_frames is the number of
\* frames admitted.
C29_Accounting ==
    /\ [][(send_frame # <<>> /\ send_frame' = Tail(send_frame)) =>
              LET f == Head(send_frame) IN
              IF ReplayFilterAdd(rp_filter, f.frame_no).ret
              THEN /\ seqnos' = Append(seqnos, <<now, f.frame_no>>)
                   /\ total_recv_frames' = total_recv_frames + 1
                   /\ high_recv_frame_no' >= high_recv_frame_no
                   /\ high_recv_frame_no' >= f.frame_no
                   /\ high_recv_frame_no' \in {high_recv_frame_no, f.frame_no}
              ELSE UNCHANGED <<seqnos, loss_calc, measured_loss, high_recv_frame_no,
                               total_recv_frames, decoder>>
         ]_vars
    /\ [](/\ total_recv_frames = Len(seqnos)
          /\ total_recv_frames <= FramesTaken
          /\ Len(seqnos) <= SeqnosCap
          /\ high_recv_frame_no = Max(SeqnosFrameNos \cup {0})
          /\ FullSeqnosPush)

\* C29 witness: of four frames taken one was rejected, and of the three
\* admitted the last did not have the highest frame number.
C29_RejectedAndReordered ==
    /\ FramesTaken = 4
    /\ total_recv_frames = 3
    /\ seqnos[3][2] < high_recv_frame_no
    /\ rp_filter.bottom_seqno > 0

\* C30: a datagram that does not decrypt does not stop reception: a shard
\* that waits for its next event is receiving from its socket, whether or
\* not an upstream frame has come since.
C30_NoStall ==
    [](\A s \in ShardIds : bh_pc[s] = "race" => ~bh_deaf[s])

\* in the datagrams q of shard shard_id every one carries that shard_id and
\* every frame comes after a ClientResume on the same socket
ResumeFirst(shard_id, q) ==
    \A i \in 1 .. Len(q) :
        /\ q[i].shard = shard_id
        /\ q[i].kind = "frame" =>
              \E j \in 1 .. i - 1 : q[j].kind = "resume" /\ q[j].sock = q[i].sock

\* the sockets on which shard s has sent
SendSockets(s) == {bw_sent[s][i].sock : i \in 1 .. Len(bw_sent[s])}

\* C31: on every socket a shard sends on, a ClientResume with the shard's
\* own shard_id goes out before any frame, and no socket is used by two
\* shards; a shard that dequeues an upstream frame rebinds exactly when the
\* frame is its first or more than 5000 ms have passed since its previous
\* rebind, and a rebind starts in no other step; the frame in hand stays the
\* same until it is sent, and it is sent on the socket in use, which after a
\* rebind is the newly bound one.
C31_RebindOrdering ==
    [][\A s \in ShardIds :
          /\ ResumeFirst(s, bw_sent'[s])
          /\ \A t \in ShardIds \ {s} : SendSockets(s)' \cap SendSockets(t)' = {}
          /\ (bh_pc[s] = "race" /\ bh_pc'[s] \in {"rebind", "send"}) =>
                /\ send_frame # <<>>
                /\ send_frame' = Tail(send_frame)
                /\ bw_frame'[s] = Head(send_frame)
                /\ (bh_pc'[s] = "rebind") <=>
                       (~bh_updated[s] \/ now - bh_last_resume[s] > ResetMillis)
          /\ (bh_last_resume'[s] # bh_last_resume[s] \/ bh_updated'[s] # bh_updated[s]) =>
                (bh_pc[s] = "race" /\ bh_pc'[s] = "rebind")
          /\ bh_socket'[s] # bh_socket[s] =>
                (bh_pc[s] = "rebind" /\ bh_socket'[s] = bh_next_sock
                    /\ bh_next_sock' > bh_next_sock)
          /\ (bh_pc[s] \in {"rebind", "retry", "send"} /\ bh_pc'[s] \notin {"race", "exited"}) =>
                bw_frame'[s] = bw_frame[s]
          /\ (bh_pc[s] = "send" /\ bh_pc'[s] = "race") =>
                /\ bw_frame[s] # 0
                /\ bw_sent'[s][Len(bw_sent'[s])] =
                       [sock |-> bh_socket[s], shard |-> s, kind |-> "frame",
                        frame |-> bw_frame[s]]
                /\ Len(bw_sent'[s]) - Len(bw_sent[s]) =
                       (IF bh_socket[s] # bh_up[s].prev THEN 2 ELSE 1)
      ]_vars

\* C31 witness: shard 0 sent frame 1 after its first rebind, whose first bind
\* failed, and frame 2 after a later rebind, each behind a ClientResume on
\* its own socket.
C31_TwoRebinds ==
    /\ bw_fails = 1
    /\ Len(bw_sent[0]) = 4
    /\ bw_sent[0][1].kind = "resume" /\ bw_sent[0][2].kind = "frame"
    /\ bw_sent[0][2].frame = 1 /\ bw_sent[0][2].sock = bw_sent[0][1].sock
    /\ bw_sent[0][3].kind = "resume" /\ bw_sent[0][4].kind = "frame"
    /\ bw_sent[0][4].frame = 2 /\ bw_sent[0][4].sock = bw_sent[0][3].sock
    /\ bw_sent[0][3].sock > bw_sent[0][1].sock

\* C32 as stated: a shard that is binding the socket of a rebind, or waiting
\* to bind again after a failure, does not end, and it keeps the upstream
\* frame it dequeued until the frame is sent.
C32_RebindFailure ==
    [][\A s \in ShardIds :
          bh_pc[s] \in {"rebind", "retry"} =>
              /\ bh_pc'[s] \in {"rebind", "retry", "send"}
              /\ bw_frame'[s] = bw_frame[s]
              /\ bw_frame[s] # 0
      ]_vars

\* C33 as stated: a datagram received during the handshake that does not
\* decrypt to a ServerHello changes nothing: connect_custom goes on waiting
\* for the reply to the same ClientHello, with the same attempt number and
\* Timer, and has returned nothing.
C33_JunkIgnored ==
    [][(Len(hs_log') > Len(hs_log) /\ hs_log'[Len(hs_log')].ev = "unusable") =>
          /\ hs_pc' = "wait"
          /\ hs_attempt' = hs_attempt
          /\ hs_timer' = hs_timer
          /\ hs_result' = HsNoResult
      ]_vars

\* C35 as stated: the stats loop never waits for a lock that the receive
\* loop holds while it is blocked sending a decoded payload to the full
\* in-bound channel.
C35_StatsUnderBackpressure ==
    ~(/\ st_sl = "decoder"
      /\ st_dec.writer
      /\ st_rl = "deliver"
      /\ st_input = InputCap)

\* C34 as stated: when the stats responder is done with a request, answered
\* or abandoned by its caller, the body is still in its main loop: no error
\* is returned and no restart follows.
C34_StatsHarmless ==
    [][(ks_pc # "recv" /\ ks_pc' = "recv") =>
          /\ ml_stage' = "main"
          /\ ka_pc' = "main_loop"
          /\ ka_err' = ka_err
      ]_vars

\* C36: the end of a body leaves the queue of connect requests as it is,
\* and every request the body had dequeued and not answered is cancelled
\* with its reply channel closed; a request leaves the queue only when the
\* dispatcher of a body in its main loop takes it, first come first served;
\* no request waits for a reply without being queued or being opened by the
\* running body; and a request that is queued while a body is in its main
\* loop is taken by that body unless the body ends first.
C36_AcrossRestarts ==
    /\ [][/\ (ml_stage # "done" /\ ml_stage' = "done") =>
                 /\ ml_queue' = ml_queue
                 /\ \A i \in 1 .. Len(ml_reqs) :
                        /\ ml_reqs[i].st = "opening" =>
                               (ml_reqs'[i].st = "cancelled" /\ ml_reqs'[i].reply = -1)
                        /\ ml_reqs[i].st = "queued" => ml_reqs'[i].st = "queued"
          /\ (ml_queue # <<>> /\ ml_queue' # ml_queue /\ Len(ml_queue') <= Len(ml_queue)) =>
                 /\ ml_stage = "main" /\ ml_stage' = "main"
                 /\ ml_queue' = Tail(ml_queue)
                 /\ ml_reqs'[Head(ml_queue)].st = "opening"
                 /\ Head(ml_queue) \in ml_here'
         ]_vars
    /\ [](\A i \in 1 .. Len(ml_reqs) :
              /\ ml_reqs[i].st = "queued" <=> (\E k \in 1 .. Len(ml_queue) : ml_queue[k] = i)
              /\ ml_reqs[i].st = "opening" => (ml_stage = "main" /\ i \in ml_here)
              /\ ml_reqs[i].reply = 0 => ml_reqs[i].st \in {"queued", "opening"})
    /\ (ml_stage = "main" /\ \E i \in 1 .. MaxReqs : ReqIs(i, "queued"))
           ~> (ml_stage # "main" \/ \A i \in 1 .. MaxReqs : ~ReqIs(i, "queued"))

\* C36 witness: a body had dequeued request 1 and ended, which closed the
\* reply channel of request 1; request 2, the next in the queue, has been
\* dispatched by a later body, which has sent it its stream.
C36_CancelledAndServedLater ==
    /\ Len(ml_reqs) = 2
    /\ ml_reqs[1].st = "cancelled" /\ ml_reqs[1].reply = -1
    /\ ml_reqs[2].st = "delivered" /\ ml_reqs[2].reply = 2
    /\ ml_stage = "main"
    /\ ml_here = {2}

====
